---- MODULE Spec2Model ----
(***************************************************************************)
(* Verification model of the path-query library: the two priority-queue    *)
(* ADTs (ds/PQ.py, ds/FibonacciHeap.py), Johnson's all-pairs engine,       *)
(* Contraction Hierarchies, Transit Node Routing, Yen's K shortest paths   *)
(* and Lifelong Planning A*.                                               *)
(*                                                                         *)
(* Each component has its own variables and its own specification          *)
(* (SpecPQ, SpecFib, SpecJohnson, SpecCH, SpecTNR, SpecYen, SpecLPA); the  *)
(* variables of the other components stay at their idle value.  Weights    *)
(* and priorities are integers (the code's floats on values where float    *)
(* arithmetic is exact).                                                   *)
(***************************************************************************)
EXTENDS Integers, Sequences, FiniteSets, Bags, TLC

VARIABLES
  \* ---- ds/PQ.py ----
  pqKind,     \* type of the items pushed: "str" or "int"
  pqHeap,     \* self.heap: the heapq array of entries [pri, item, id]
  pqFinder,   \* self.finder: item -> id of its entry (0: absent)
  pqNext,     \* identity of the next entry object created
  pqLive,     \* ghost: item -> priority of its most recent push (0: not live)
  pqPrev,     \* ghost: pqLive before the last call
  pqOp,       \* ghost: the last call, "init" | "push" | "pop" | "peek"
  pqRes,      \* ghost: outcome of the last call
  \* ---- ds/FibonacciHeap.py ----
  fhTrees,    \* self.trees: sequence of trees [value, child, order]
  fhLeast,    \* self.least: index into fhTrees of the least tree (0: None)
  fhCount,    \* self.count
  fhLive,     \* ghost: bag of the values pushed and not yet popped
  fhPrev,     \* ghost: fhLive before the last call
  fhOp,       \* ghost: the last call, "init" | "push" | "pop"
  fhRes,      \* ghost: outcome of the last call
  \* ---- algorithms/Johnson.py ----
  jDirected,  \* the input graph is an nx.DiGraph (TRUE) or an nx.Graph
  jG,         \* the input graph G: arc -> edge data
  jAug,       \* G_aug: arc (start included) -> edge data
  jPhase,     \* position in johnson: "spfa" | "reweight" | "search" | "done"
  jPot,       \* potential
  jInQ,       \* in_queue
  jQueue,     \* queue (the deque)
  jCnt,       \* cnt
  jDist,      \* dist
  jSrc,       \* number of sources whose search is finished
  jSteps,     \* ghost: iterations of the potential pass so far
  jOut,       \* outcome: "running" | "None" | "table" | "KeyError" | "IndexError"
  \* ---- algorithms/Contraction Hierarchies.py ----
  chG,        \* the input graph G: ordered pair -> weight (Inf: no edge)
  chS,        \* source
  chT,        \* target
  chPhase,    \* position in ch_shortest_path: "start" | "loop" | "after" | "done"
  chUp,       \* G_up: ordered pair -> weight (Inf: no edge)
  chRank,     \* rank
  chF,        \* forward search: [dist, par, pq, visit]
  chB,        \* backward search: [dist, par, pq, visit]
  chBest,     \* [best, meet]: best_distance and meeting_node (0: None)
  chOut       \* outcome: [kind, path, cost]

pqVars == <<pqKind, pqHeap, pqFinder, pqNext, pqLive, pqPrev, pqOp, pqRes>>
fhVars == <<fhTrees, fhLeast, fhCount, fhLive, fhPrev, fhOp, fhRes>>
jVars == <<jDirected, jG, jAug, jPhase, jPot, jInQ, jQueue, jCnt, jDist, jSrc,
          jSteps, jOut>>
chVars == <<chG, chS, chT, chPhase, chUp, chRank, chF, chB, chBest, chOut>>
\* algorithms/TNR.py: the graph and build parameters, the TransitNodeIndex,
\* the last query and its result; tnrTried counts the transit candidates
\* that the last query materialised (line 133 passed)
VARIABLES tnrDirected, tnrG, tnrK, tnrMaxAccess, tnrLimit, tnrPhase, tnrIndex,
          tnrS, tnrT, tnrOut, tnrTried
tnrVars == <<tnrDirected, tnrG, tnrK, tnrMaxAccess, tnrLimit, tnrPhase, tnrIndex,
             tnrS, tnrT, tnrOut, tnrTried>>
\* algorithms/Yen.py: the call's arguments, the accepted list A, the bank B
\* with its candidate paths (yCands[tie + 1] is the path pushed with that
\* tie; cand_seen is the set of its elements), the result; yPops counts
\* the heap pops of SP_with_bans
VARIABLES yDirected, yG, yS, yT, yK, yPhase, yA, yB, yCands, yOut, yPops
yVars == <<yDirected, yG, yS, yT, yK, yPhase, yA, yB, yCands, yOut, yPops>>
\* algorithms/LPAs.py: the type of the node labels, the graph, the call's
\* arguments, the locals of lpa_star (lpaSt: g, rhs and the PQ's heap,
\* finder and next entry identity), the result; lpaIters counts the
\* iterations of the main loop, lpaSolves the calls made on this graph,
\* lpaFirst keeps the result of the call made before the graph was changed
VARIABLES lpaKind, lpaDirected, lpaG, lpaS, lpaT, lpaPhase, lpaSt, lpaOut, lpaIters,
          lpaSolves, lpaFirst
lpaVars == <<lpaKind, lpaDirected, lpaG, lpaS, lpaT, lpaPhase, lpaSt, lpaOut, lpaIters,
             lpaSolves, lpaFirst>>
vars == <<pqVars, fhVars, jVars, chVars, tnrVars, yVars, lpaVars>>

(***************************************************************************)
(* Bounds of the model.                                                    *)
(***************************************************************************)
NumItems == 3
MaxPri == 2
MaxPush == 4
MaxVal == 3
MaxCount == 5
NumNodes == 3
MaxNegW == 1
MaxPosW == 1
NumCNodes == 5
MaxCW == 3
MaxRingW == 2
NumTNodes == 3
MaxTW == 2
MaxK == 2
MaxAccess == 2
MaxLimit == 1
NumYNodes == 4
MaxYW == 2
MaxYK == 3
MaxLW == 2
MaxLIters == 12

(***************************************************************************)
(* ds/PQ.py                                                                *)
(***************************************************************************)
\* The sentinel '<removed>'.  Items are coded by even numbers, so that as
\* strings some items sort below the sentinel and some above it.
REMOVED == 3
Items == {2 * i : i \in 1..NumItems}
Pris == 1..MaxPri
ItemKinds == {"str", "int"}

NoRes == [kind |-> "none", pri |-> 0, item |-> 0]
PairRes(p, i) == [kind |-> "pair", pri |-> p, item |-> i]
ErrRes(e) == [kind |-> e, pri |-> 0, item |-> 0]

\* Python's  [p1, i1] < [p2, i2]  on two heap entries: "lt", "ge", or "err"
\* (TypeError) when the priorities tie and an int item meets the str sentinel.
EntryCmp(kind, a, b) ==
  IF a.pri # b.pri THEN (IF a.pri < b.pri THEN "lt" ELSE "ge")
  ELSE IF a.item = b.item THEN "ge"
  ELSE IF kind = "int" /\ (a.item = REMOVED \/ b.item = REMOVED) THEN "err"
  ELSE IF a.item < b.item THEN "lt" ELSE "ge"

Swap(h, i, j) == [h EXCEPT ![i] = h[j], ![j] = h[i]]

\* heapq._siftdown(heap, 0, pos), 1-based: [heap, err]
RECURSIVE SiftDown(_, _, _)
SiftDown(kind, h, i) ==
  IF i = 1 THEN [heap |-> h, err |-> FALSE]
  ELSE LET p == i \div 2
           c == EntryCmp(kind, h[i], h[p])
       IN IF c = "err" THEN [heap |-> h, err |-> TRUE]
          ELSE IF c = "ge" THEN [heap |-> h, err |-> FALSE]
          ELSE SiftDown(kind, Swap(h, i, p), p)

\* heapq._siftup(heap, pos), 1-based: [heap, err]
RECURSIVE SiftUp(_, _, _)
SiftUp(kind, h, i) ==
  LET n == Len(h)
      l == 2 * i
      r == 2 * i + 1
  IN IF l > n THEN SiftDown(kind, h, i)
     ELSE LET c == IF r <= n THEN EntryCmp(kind, h[l], h[r]) ELSE "lt"
              child == IF c = "lt" THEN l ELSE r
          IN IF c = "err" THEN [heap |-> h, err |-> TRUE]
             ELSE SiftUp(kind, Swap(h, i, child), child)

\* heapq.heappush(heap, entry): [heap, err]
HeapPush(kind, h, e) == SiftDown(kind, Append(h, e), Len(h) + 1)

\* heapq.heappop(heap) on a non-empty heap: [ret, heap, err]; when the
\* sift raises, the entry that was at the top is no longer in the heap.
HeapPop(kind, h) ==
  LET n == Len(h)
      rest == SubSeq(h, 1, n - 1)
  IN IF n = 1 THEN [ret |-> h[1], heap |-> <<>>, err |-> FALSE]
     ELSE LET s == SiftUp(kind, [rest EXCEPT ![1] = h[n]], 1)
          IN [ret |-> h[1], heap |-> s.heap, err |-> s.err]

\* old_entry[-1] = self.REMOVED on the entry object the finder refers to
Tombstone(h, id) ==
  [k \in 1..Len(h) |-> IF h[k].id = id THEN [h[k] EXCEPT !.item = REMOVED] ELSE h[k]]

\* PQ.push(item, priority): [heap, finder, res]
PushResult(kind, h, f, id, item, pri) ==
  LET h1 == IF f[item] # 0 THEN Tombstone(h, f[item]) ELSE h
      s == HeapPush(kind, h1, [pri |-> pri, item |-> item, id |-> id])
  IN [heap |-> s.heap,
      finder |-> [f EXCEPT ![item] = id],
      res |-> IF s.err THEN ErrRes("TypeError") ELSE NoRes]

\* PQ.pop(): [heap, finder, res]
RECURSIVE PopResult(_, _, _)
PopResult(kind, h, f) ==
  IF Len(h) = 0 THEN [heap |-> h, finder |-> f, res |-> ErrRes("KeyError")]
  ELSE LET s == HeapPop(kind, h)
       IN IF s.err THEN [heap |-> s.heap, finder |-> f, res |-> ErrRes("TypeError")]
          ELSE IF s.ret.item # REMOVED
               THEN [heap |-> s.heap,
                     finder |-> [f EXCEPT ![s.ret.item] = 0],
                     res |-> PairRes(s.ret.pri, s.ret.item)]
          ELSE PopResult(kind, s.heap, f)

\* PQ.peek(): [heap, res]
RECURSIVE PeekResult(_, _)
PeekResult(kind, h) ==
  IF Len(h) = 0 THEN [heap |-> h, res |-> ErrRes("KeyError")]
  ELSE IF h[1].item # REMOVED THEN [heap |-> h, res |-> PairRes(h[1].pri, h[1].item)]
  ELSE LET s == HeapPop(kind, h)
       IN IF s.err THEN [heap |-> s.heap, res |-> ErrRes("TypeError")]
          ELSE PeekResult(kind, s.heap)

PQInit ==
  /\ pqKind \in ItemKinds
  /\ pqHeap = <<>>
  /\ pqFinder = [i \in Items |-> 0]
  /\ pqNext = 1
  /\ pqLive = [i \in Items |-> 0]
  /\ pqPrev = [i \in Items |-> 0]
  /\ pqOp = "init"
  /\ pqRes = NoRes

PQIdle ==
  /\ pqKind = "str"
  /\ pqHeap = <<>>
  /\ pqFinder = [i \in Items |-> 0]
  /\ pqNext = 1
  /\ pqLive = [i \in Items |-> 0]
  /\ pqPrev = [i \in Items |-> 0]
  /\ pqOp = "init"
  /\ pqRes = NoRes

PQPush(item, pri) ==
  /\ pqNext <= MaxPush
  /\ LET r == PushResult(pqKind, pqHeap, pqFinder, pqNext, item, pri)
     IN /\ pqHeap' = r.heap
        /\ pqFinder' = r.finder
        /\ pqRes' = r.res
  /\ pqNext' = pqNext + 1
  /\ pqPrev' = pqLive
  /\ pqLive' = [pqLive EXCEPT ![item] = pri]
  /\ pqOp' = "push"
  /\ UNCHANGED <<pqKind, fhVars, jVars, chVars, tnrVars, yVars, lpaVars>>

PQPop ==
  /\ LET r == PopResult(pqKind, pqHeap, pqFinder)
     IN /\ pqHeap' = r.heap
        /\ pqFinder' = r.finder
        /\ pqRes' = r.res
        /\ pqLive' = IF r.res.kind = "pair" THEN [pqLive EXCEPT ![r.res.item] = 0]
                     ELSE pqLive
  /\ pqPrev' = pqLive
  /\ pqOp' = "pop"
  /\ UNCHANGED <<pqKind, pqNext, fhVars, jVars, chVars, tnrVars, yVars, lpaVars>>

PQPeek ==
  /\ LET r == PeekResult(pqKind, pqHeap)
     IN /\ pqHeap' = r.heap
        /\ pqRes' = r.res
  /\ pqPrev' = pqLive
  /\ pqOp' = "peek"
  /\ UNCHANGED <<pqKind, pqFinder, pqNext, pqLive, fhVars, jVars, chVars, tnrVars, yVars, lpaVars>>

(***************************************************************************)
(* Claims on ds/PQ.py                                                      *)
(***************************************************************************)
PQLiveItems(live) == {i \in Items : live[i] # 0}
PQLiveEntries(item) == {k \in 1..Len(pqHeap) : pqHeap[k].item = item}

\* C1: a pop() called while some item is live returns a live item whose
\* current priority (that of its most recent push) is minimal among the
\* live items.
C1_PopReturnsMinLive ==
  (pqOp = "pop" /\ PQLiveItems(pqPrev) # {}) =>
     /\ pqRes.kind = "pair"
     /\ pqRes.item \in PQLiveItems(pqPrev)
     /\ pqRes.pri = pqPrev[pqRes.item]
     /\ \A j \in PQLiveItems(pqPrev) : pqRes.pri <= pqPrev[j]

\* C2: push on a present item is update-key: pop() and peek() return an item
\* only with the priority of its most recent push, and every live item has
\* exactly one live entry in the heap (so it is popped exactly once), every
\* other item none.
C2_PushIsUpdateKey ==
  /\ (pqOp \in {"pop", "peek"} /\ pqRes.kind = "pair") =>
        pqRes.pri = pqPrev[pqRes.item]
  /\ \A i \in Items :
        Cardinality(PQLiveEntries(i)) = (IF pqLive[i] # 0 THEN 1 ELSE 0)
  /\ \A i \in PQLiveItems(pqLive) :
        \A k \in PQLiveEntries(i) : pqHeap[k].pri = pqLive[i]


(***************************************************************************)
(* ds/FibonacciHeap.py                                                     *)
(***************************************************************************)
\* FibonacciTree(value); None in a bucket of consolidate's aux array
Tree(v) == [value |-> v, child |-> <<>>, order |-> 0]
NoneTree == [value |-> 0, child |-> <<>>, order |-> -1]

\* an add_at_end that appends the child and leaves the order as it is
AddAtEndKeepOrder(x, t) == [x EXCEPT !.child = Append(x.child, t)]

\* FibonacciTree.add_at_end(t)
AddAtEnd(x, t) == [x EXCEPT !.child = Append(x.child, t), !.order = x.order + 1]

\* a floor_log that is one too small from 2 on
RECURSIVE FloorLogLow(_)
FloorLogLow(x) == IF x <= 1 THEN -1 ELSE IF x < 4 THEN 0 ELSE 1 + FloorLogLow(x \div 2)

\* floor_log(x) = math.frexp(x)[1] - 1
RECURSIVE FloorLog(_)
FloorLog(x) == IF x <= 0 THEN -1 ELSE IF x = 1 THEN 0 ELSE 1 + FloorLog(x \div 2)

EmptyFib == [trees |-> <<>>, least |-> 0, count |-> 0]

\* FibonacciHeap.is_empty()
FibIsEmpty(h) == h.count = 0

\* the test of push that moves the least pointer to the new tree
PushMovesLeast(h, value) == h.least = 0 \/ value < h.trees[h.least].value

\* FibonacciHeap.push(value) (put(value) is the same call)
FibPush(h, value) ==
  [trees |-> Append(h.trees, Tree(value)),
   least |-> IF PushMovesLeast(h, value) THEN Len(h.trees) + 1 ELSE h.least,
   count |-> h.count + 1]

\* the pair (root, child) that consolidate links from trees x and y
LinkPairNoSwap(x, y) == <<x, y>>
LinkPair(x, y) == IF x.value > y.value THEN <<y, x>> ELSE <<x, y>>

\* the inner while loop of consolidate and the store aux[order] = x;
\* err: the index order is outside aux (IndexError)
RECURSIVE Link(_, _, _)
Link(x, order, aux) ==
  IF order + 1 > Len(aux) THEN [aux |-> aux, err |-> TRUE]
  ELSE IF aux[order + 1] = NoneTree
       THEN [aux |-> [aux EXCEPT ![order + 1] = x], err |-> FALSE]
  ELSE LET pr == LinkPair(x, aux[order + 1])
       IN Link(AddAtEnd(pr[1], pr[2]), order + 1, [aux EXCEPT ![order + 1] = NoneTree])

\* the outer while loop of consolidate: [aux, err]
RECURSIVE ConsumeTrees(_, _)
ConsumeTrees(trees, aux) ==
  IF trees = <<>> THEN [aux |-> aux, err |-> FALSE]
  ELSE LET r == Link(Head(trees), Head(trees).order, aux)
       IN IF r.err THEN r ELSE ConsumeTrees(Tail(trees), r.aux)

\* the final loop of consolidate: the buckets in order, least by strict <
RECURSIVE CollectAux(_, _, _, _)
CollectAux(aux, k, trees, least) ==
  IF k > Len(aux) THEN [trees |-> trees, least |-> least]
  ELSE IF aux[k] = NoneTree THEN CollectAux(aux, k + 1, trees, least)
  ELSE CollectAux(aux, k + 1, Append(trees, aux[k]),
                  IF least = 0 \/ aux[k].value < trees[least].value
                  THEN Len(trees) + 1 ELSE least)

\* FibonacciHeap.consolidate() with self.trees = trees, self.count = count
Consolidate(trees, count) ==
  LET n == FloorLog(count) + 1
      aux0 == [k \in 1..(IF n > 0 THEN n ELSE 0) |-> NoneTree]
      r == ConsumeTrees(trees, aux0)
      c == CollectAux(r.aux, 1, <<>>, 0)
  IN [trees |-> c.trees, least |-> c.least, err |-> r.err]

RemoveAt(seq, i) == SubSeq(seq, 1, i - 1) \o SubSeq(seq, i + 1, Len(seq))

ValueRes(v) == [kind |-> "value", pri |-> v, item |-> 0]

\* FibonacciHeap.pop(): [heap, res]
FibPop(h) ==
  IF h.least = 0 THEN [heap |-> h, res |-> ErrRes("None")]
  ELSE LET smallest == h.trees[h.least]
           trees1 == RemoveAt(h.trees \o smallest.child, h.least)
       IN IF trees1 = <<>>
          THEN [heap |-> [trees |-> <<>>, least |-> 0, count |-> h.count - 1],
                res |-> ValueRes(smallest.value)]
          ELSE LET c == Consolidate(trees1, h.count)
               IN IF c.err
                  THEN [heap |-> [trees |-> c.trees, least |-> c.least, count |-> h.count],
                        res |-> ErrRes("IndexError")]
                  ELSE [heap |-> [trees |-> c.trees, least |-> c.least,
                                  count |-> h.count - 1],
                        res |-> ValueRes(smallest.value)]

FibValues == 1..MaxVal
fhHeap == [trees |-> fhTrees, least |-> fhLeast, count |-> fhCount]

FibInit ==
  /\ fhTrees = <<>>
  /\ fhLeast = 0
  /\ fhCount = 0
  /\ fhLive = EmptyBag
  /\ fhPrev = EmptyBag
  /\ fhOp = "init"
  /\ fhRes = NoRes

FibIdle == FibInit

FhPush(v) ==
  /\ fhCount < MaxCount
  /\ LET h == FibPush(fhHeap, v)
     IN /\ fhTrees' = h.trees
        /\ fhLeast' = h.least
        /\ fhCount' = h.count
  /\ fhPrev' = fhLive
  /\ fhLive' = fhLive (+) SetToBag({v})
  /\ fhOp' = "push"
  /\ fhRes' = NoRes
  /\ UNCHANGED <<pqVars, jVars, chVars, tnrVars, yVars, lpaVars>>

FhPop ==
  /\ LET r == FibPop(fhHeap)
     IN /\ fhTrees' = r.heap.trees
        /\ fhLeast' = r.heap.least
        /\ fhCount' = r.heap.count
        /\ fhRes' = r.res
        /\ fhLive' = IF r.res.kind = "value" THEN fhLive (-) SetToBag({r.res.pri})
                     ELSE fhLive
  /\ fhPrev' = fhLive
  /\ fhOp' = "pop"
  /\ UNCHANGED <<pqVars, jVars, chVars, tnrVars, yVars, lpaVars>>

(***************************************************************************)
(* Claims on ds/FibonacciHeap.py                                           *)
(***************************************************************************)
\* the bag of the values stored in a sequence of trees
RECURSIVE ForestBag(_)
ForestBag(trees) ==
  IF trees = <<>> THEN EmptyBag
  ELSE SetToBag({Head(trees).value}) (+) ForestBag(Head(trees).child)
       (+) ForestBag(Tail(trees))

\* C3: pop() on a non-empty heap returns a minimum of the values pushed and
\* not yet popped, and the forest stores exactly the values pushed and not
\* yet popped (none lost, none duplicated).
C3_FibPopReturnsMin ==
  /\ (fhOp = "pop" /\ fhPrev # EmptyBag) =>
        /\ fhRes.kind = "value"
        /\ BagIn(fhRes.pri, fhPrev)
        /\ \A v \in BagToSet(fhPrev) : fhRes.pri <= v
  /\ ForestBag(fhTrees) = fhLive

\* a pop that consolidated: it returned a value and left a linked tree
C3_Witness ==
  /\ fhOp = "pop"
  /\ fhRes.kind = "value"
  /\ \E k \in 1..Len(fhTrees) : fhTrees[k].order >= 2
  /\ \E v \in BagToSet(fhLive) : CopiesIn(v, fhLive) >= 2

\* C4: for both queues, pop() with no live item fails with an error (no
\* sentinel value is returned) and leaves the queue empty.
C4_EmptyPopFails ==
  /\ (pqOp = "pop" /\ PQLiveItems(pqPrev) = {}) =>
        /\ pqRes.kind \in {"KeyError"}
        /\ pqHeap = <<>>
  /\ (fhOp = "pop" /\ fhPrev = EmptyBag) =>
        /\ fhRes.kind \notin {"None", "value"}
        /\ fhTrees = <<>> /\ fhCount = 0

\* no child's value is smaller than its parent's, in the whole tree t
RECURSIVE HeapOrdered(_)
HeapOrdered(t) ==
  \A k \in 1..Len(t.child) : t.child[k].value >= t.value /\ HeapOrdered(t.child[k])

\* the order of every node of the tree t is its number of children
RECURSIVE OrderIsDegree(_)
OrderIsDegree(t) ==
  t.order = Len(t.child) /\ \A k \in 1..Len(t.child) : OrderIsDegree(t.child[k])

\* C27: after any sequence of push and pop calls every tree of the forest is
\* heap-ordered, count is the number of values stored in the forest, the
\* order of every tree is its number of children, and least is a root with
\* the minimum value, None exactly when the heap is empty.
C27_FibForestInvariant ==
  /\ \A k \in 1..Len(fhTrees) : HeapOrdered(fhTrees[k]) /\ OrderIsDegree(fhTrees[k])
  /\ fhCount = BagCardinality(ForestBag(fhTrees))
  /\ fhLeast = 0 <=> fhCount = 0
  /\ fhLeast # 0 =>
        /\ fhLeast \in 1..Len(fhTrees)
        /\ \A v \in BagToSet(ForestBag(fhTrees)) : fhTrees[fhLeast].value <= v

\* a push onto a consolidated heap moved least to the new root: the forest
\* holds a tree of order 2 with a grandchild and a second root
C27_Witness ==
  /\ fhOp = "push" /\ fhCount = 5
  /\ fhLeast = Len(fhTrees) /\ fhLeast > 1
  /\ \E k \in 1..Len(fhTrees) :
        fhTrees[k].order = 2 /\ \E c \in 1..2 : fhTrees[k].child[c].order = 1

\* C28: a pop never indexes the bucket array of consolidate out of range:
\* the orders of the trees it leaves (the largest orders met while linking)
\* are at most floor(log2(count)) for the count before the pop, and the
\* roots it leaves have pairwise distinct orders.
C28_ConsolidateInRange ==
  /\ fhRes.kind # "IndexError"
  /\ fhOp = "pop" =>
        /\ \A k \in 1..Len(fhTrees) : fhTrees[k].order <= FloorLog(BagCardinality(fhPrev))
        /\ \A i \in 1..Len(fhTrees) : \A j \in 1..Len(fhTrees) :
              fhTrees[i].order = fhTrees[j].order => i = j

\* a pop from 5 values left a root of order 2 = floor(log2(5)): the last
\* bucket of the array was used
C28_Witness ==
  /\ fhOp = "pop" /\ fhRes.kind = "value"
  /\ BagCardinality(fhPrev) = 5
  /\ \E k \in 1..Len(fhTrees) : fhTrees[k].order = FloorLog(5)

(***************************************************************************)
(* Graphs                                                                  *)
(***************************************************************************)
\* float('inf'); sums with it stay infinite
Inf == 1000
Plus(a, b) == IF a >= Inf \/ b >= Inf THEN Inf ELSE a + b

Nodes == 1..NumNodes
Arcs == {a \in Nodes \X Nodes : a[1] # a[2]}
UPairs == {a \in Arcs : a[1] < a[2]}

\* the data of an ordered pair: no edge, an edge without a weight attribute,
\* or an edge with weight w
NoEdge == [edge |-> FALSE, attr |-> FALSE, w |-> 0]
BareEdge == [edge |-> TRUE, attr |-> FALSE, w |-> 0]
WEdge(x) == [edge |-> TRUE, attr |-> TRUE, w |-> x]

\* G[u][v].get('weight', 1)
GetWeight(e) == IF e.attr THEN e.w ELSE 1

\* the nodes in iteration order (insertion order: ascending)
RECURSIVE SeqOfSet(_)
SeqOfSet(S) ==
  IF S = {} THEN <<>>
  ELSE LET m == CHOOSE x \in S : \A y \in S : x <= y
       IN <<m>> \o SeqOfSet(S \ {m})

\* an undirected graph given by its unordered pairs
Symmetric(f) == [a \in Arcs |-> IF a[1] < a[2] THEN f[a] ELSE f[<<a[2], a[1]>>]]

(***************************************************************************)
(* algorithms/Johnson.py                                                   *)
(***************************************************************************)
Start == NumNodes + 1
AugNodes == 1..(NumNodes + 1)
AugArcs == {a \in AugNodes \X AugNodes : a[1] # a[2]}
JWeights == (0 - MaxNegW)..MaxPosW
JEdgeData == {NoEdge, BareEdge} \cup {WEdge(x) : x \in JWeights}

\* G_aug = G.copy() plus the edges (start, node) of weight 0
AugOf(directed, G) ==
  [a \in AugArcs |->
     IF a[1] = Start THEN WEdge(0)
     ELSE IF a[2] = Start THEN (IF directed THEN NoEdge ELSE WEdge(0))
     ELSE G[a]]

\* G.neighbors(u), in order
Neighbors(G, dom, u) == SeqOfSet({v \in dom : v # u /\ G[<<u, v>>].edge})

\* the test cnt[v] > len(G_aug.nodes) that reports a negative cycle
CntExceedsEarly(c) == c > Cardinality(AugNodes) - 3
CntExceeds(c) == c > Cardinality(AugNodes)

\* the for loop over the neighbours of u in the potential pass:
\* [pot, inq, queue, cnt, neg]
RECURSIVE SpfaRelax(_, _, _, _)
SpfaRelax(aug, u, nbrs, st) ==
  IF nbrs = <<>> \/ st.neg THEN st
  ELSE LET v == Head(nbrs)
           weight == GetWeight(aug[<<u, v>>])
           nd == Plus(st.pot[u], weight)
       IN IF nd < st.pot[v]
          THEN LET pot1 == [st.pot EXCEPT ![v] = nd]
               IN IF ~st.inq[v]
                  THEN LET cnt1 == [st.cnt EXCEPT ![v] = st.cnt[v] + 1]
                       IN IF CntExceeds(cnt1[v])
                          THEN [st EXCEPT !.pot = pot1, !.cnt = cnt1, !.neg = TRUE]
                          ELSE SpfaRelax(aug, u, Tail(nbrs),
                                 [pot |-> pot1, inq |-> [st.inq EXCEPT ![v] = TRUE],
                                  queue |-> Append(st.queue, v), cnt |-> cnt1,
                                  neg |-> FALSE])
                  ELSE SpfaRelax(aug, u, Tail(nbrs), [st EXCEPT !.pot = pot1])
          ELSE SpfaRelax(aug, u, Tail(nbrs), st)

\* the sign of the potential shift applied to an edge (u, v)
ReweightedWrongSign(w, pu, pv) == w - pu + pv
Reweighted(w, pu, pv) == w + pu - pv

\* the reweighting loop over G_aug.edges; an undirected edge is met once, as
\* (u, v) with u before v, and its one weight serves both directions
ReweightAll(directed, aug, pot) ==
  [a \in AugArcs |->
     IF a[1] = Start \/ a[2] = Start \/ ~aug[a].edge THEN aug[a]
     ELSE IF directed \/ a[1] < a[2]
          THEN WEdge(Reweighted(aug[a].w, pot[a[1]], pot[a[2]]))
          ELSE WEdge(Reweighted(aug[a].w, pot[a[2]], pot[a[1]]))]

\* the loop raises KeyError on an edge without a weight attribute
ReweightFails(aug) ==
  \E a \in AugArcs : a[1] # Start /\ a[2] # Start /\ aug[a].edge /\ ~aug[a].attr

\* a heap value (dist, node); whole numbers order as the tuples do
HeapVal(d, v) == d * (NumNodes + 2) + v
ValDist(x) == x \div (NumNodes + 2)
ValNode(x) == x % (NumNodes + 2)

\* the for loop over G.neighbors(u) of the per-source search: [d, q]
RECURSIVE SearchRelax(_, _, _, _)
SearchRelax(aug, u, nbrs, st) ==
  IF nbrs = <<>> THEN st
  ELSE LET v == Head(nbrs)
           weight == GetWeight(aug[<<u, v>>])
           nd == Plus(st.d[u], weight)
       IN IF nd < st.d[v]
          THEN SearchRelax(aug, u, Tail(nbrs),
                 [d |-> [st.d EXCEPT ![v] = nd], q |-> FibPush(st.q, HeapVal(nd, v))])
          ELSE SearchRelax(aug, u, Tail(nbrs), st)

\* the while loop of the per-source search: [d, err]
RECURSIVE SearchLoop(_, _, _)
SearchLoop(G, aug, st) ==
  IF FibIsEmpty(st.q) THEN [d |-> st.d, err |-> FALSE]
  ELSE LET r == FibPop(st.q)
       IN IF r.res.kind # "value" THEN [d |-> st.d, err |-> TRUE]
          ELSE LET u == ValNode(r.res.pri)
                   cd == ValDist(r.res.pri)
               IN IF cd > st.d[u] THEN SearchLoop(G, aug, [d |-> st.d, q |-> r.heap])
                  ELSE SearchLoop(G, aug,
                         SearchRelax(aug, u, Neighbors(G, Nodes, u),
                                     [d |-> st.d, q |-> r.heap]))

\* dist[s][v] += potential[v] - potential[s]
ShiftBackWrongSign(d, pv, ps) == Plus(d, pv + ps)
ShiftBack(d, pv, ps) == Plus(d, pv - ps)

\* one source s of the last loop of johnson: [d, err]
SearchFrom(G, aug, pot, s) ==
  LET d0 == [v \in Nodes |-> IF v = s THEN 0 ELSE Inf]
      r == SearchLoop(G, aug, [d |-> d0, q |-> FibPush(EmptyFib, HeapVal(0, s))])
  IN [d |-> [v \in Nodes |-> ShiftBack(r.d[v], pot[v], pot[s])], err |-> r.err]

JStartState(directed, G) ==
  /\ jDirected = directed
  /\ jG = G
  /\ jAug = AugOf(directed, G)
  /\ jPhase = "spfa"
  /\ jPot = [v \in AugNodes |-> IF v = Start THEN 0 ELSE Inf]
  /\ jInQ = [v \in AugNodes |-> FALSE]
  /\ jQueue = <<Start>>
  /\ jCnt = [v \in AugNodes |-> 0]
  /\ jDist = [s \in Nodes |-> [v \in Nodes |-> Inf]]
  /\ jSrc = 0
  /\ jSteps = 0
  /\ jOut = "running"

JInit ==
  \/ \E G \in [Arcs -> JEdgeData] : JStartState(TRUE, G)
  \/ \E f \in [UPairs -> JEdgeData] : JStartState(FALSE, Symmetric(f))

JIdle ==
  JStartState(FALSE, [a \in Arcs |-> NoEdge])

\* one iteration of the while loop of the potential pass
JSpfaStep ==
  /\ jPhase = "spfa"
  /\ jQueue # <<>>
  /\ LET u == Head(jQueue)
         st == SpfaRelax(jAug, u, Neighbors(jAug, AugNodes, u),
                 [pot |-> jPot, inq |-> [jInQ EXCEPT ![u] = FALSE],
                  queue |-> Tail(jQueue), cnt |-> jCnt, neg |-> FALSE])
     IN /\ jPot' = st.pot
        /\ jInQ' = st.inq
        /\ jQueue' = st.queue
        /\ jCnt' = st.cnt
        /\ jPhase' = IF st.neg THEN "done" ELSE "spfa"
        /\ jOut' = IF st.neg THEN "None" ELSE "running"
  /\ jSteps' = jSteps + 1
  /\ UNCHANGED <<jDirected, jG, jAug, jDist, jSrc, pqVars, fhVars, chVars, tnrVars, yVars, lpaVars>>

\* the reweighting loop, entered when the queue is empty
JReweight ==
  /\ jPhase = "spfa"
  /\ jQueue = <<>>
  /\ IF ReweightFails(jAug)
     THEN /\ jPhase' = "done"
          /\ jOut' = "KeyError"
          /\ jAug' = jAug
     ELSE /\ jPhase' = "search"
          /\ jOut' = "running"
          /\ jAug' = ReweightAll(jDirected, jAug, jPot)
  /\ UNCHANGED <<jDirected, jG, jPot, jInQ, jQueue, jCnt, jDist, jSrc, jSteps,
                 pqVars, fhVars, chVars, tnrVars, yVars, lpaVars>>

\* the search from the next source; after the last one the table is returned
JSearch ==
  /\ jPhase = "search"
  /\ jSrc < NumNodes
  /\ LET s == jSrc + 1
         r == SearchFrom(jG, jAug, jPot, s)
     IN /\ jDist' = [jDist EXCEPT ![s] = r.d]
        /\ jSrc' = s
        /\ jPhase' = IF r.err \/ s = NumNodes THEN "done" ELSE "search"
        /\ jOut' = IF r.err THEN "IndexError"
                   ELSE IF s = NumNodes THEN "table" ELSE "running"
  /\ UNCHANGED <<jDirected, jG, jAug, jPot, jInQ, jQueue, jCnt, jSteps, pqVars, fhVars,
                 chVars, tnrVars, yVars, lpaVars>>

(***************************************************************************)
(* algorithms/Contraction Hierarchies.py                                   *)
(***************************************************************************)
CNodes == 1..NumCNodes
\* a node that is not in G
CAbsent == NumCNodes + 1
CArcs == {a \in CNodes \X CNodes : a[1] # a[2]}
CPairs == {a \in CArcs : a[1] < a[2]}
CWeights == 1..MaxCW
Min2(a, b) == IF a <= b THEN a ELSE b

\* tuple(sorted((a, b)))
SortedKey(a, b) == IF a < b THEN <<a, b>> ELSE <<b, a>>

\* heapq.heappop on a heap of (d, node) tuples returns the least tuple
MinPair(pq) ==
  CHOOSE e \in pq : \A f \in pq : e[1] < f[1] \/ (e[1] = f[1] /\ e[2] <= f[2])

\* _dijkstra_limited(G, source, forbidden, dist_limit) on the working graph
\* with nodes alive (the forbidden node left out): node -> d (Inf: not in dist)
RECURSIVE DijkstraLimited(_, _, _, _, _)
DijkstraLimited(G, alive, limit, pq, dist) ==
  IF pq = {} THEN dist
  ELSE LET e == MinPair(pq)
           d == e[1]
           u == e[2]
           dist1 == [dist EXCEPT ![u] = d]
       IN IF dist[u] < Inf THEN DijkstraLimited(G, alive, limit, pq \ {e}, dist)
          ELSE IF d > limit THEN DijkstraLimited(G, alive, limit, pq \ {e}, dist1)
          ELSE DijkstraLimited(G, alive, limit,
                 (pq \ {e}) \cup
                   {<<d + G[<<u, v>>], v>> : v \in
                      {x \in alive \ {u} : /\ G[<<u, x>>] < Inf
                                           /\ d + G[<<u, x>>] <= limit
                                           /\ dist1[x] >= Inf}},
                 dist1)

\* compute_node_order(G): ascending degree, ties in node order (stable sort)
RECURSIVE NodeOrder(_, _)
NodeOrder(G, S) ==
  IF S = {} THEN <<>>
  ELSE LET deg(v) == Cardinality({u \in CNodes \ {v} : G[<<v, u>>] < Inf})
           m == CHOOSE x \in S : \A y \in S :
                  deg(x) < deg(y) \/ (deg(x) = deg(y) /\ x <= y)
       IN <<m>> \o NodeOrder(G, S \ {m})

\* the test alt > via_v that records a shortcut
NeedsShortcut(alt, via) == alt > via

\* the contraction loop of build_contraction_hierarchy from position k of the
\* order: the working graph is G on the nodes alive; returns edge_map
RECURSIVE Contract(_, _, _, _, _)
Contract(G, order, k, alive, emap) ==
  IF k > Len(order) THEN emap
  ELSE LET v == order[k]
           rest == alive \ {v}
           neigh == {u \in rest : G[<<u, v>>] < Inf}
           via(p) == G[<<p[1], v>>] + G[<<v, p[2]>>]
           alt(p) == DijkstraLimited(G, rest, via(p), {<<0, p[1]>>},
                                     [x \in CNodes |-> Inf])[p[2]]
       IN Contract(G, order, k + 1, rest,
            [p \in CPairs |->
               IF p[1] \in neigh /\ p[2] \in neigh /\ NeedsShortcut(alt(p), via(p))
               THEN Min2(emap[p], via(p)) ELSE emap[p]])

\* build_contraction_hierarchy(G): [up, rank]
BuildCH(G) ==
  LET Made(order, emap) ==
        [up |-> [a \in CArcs |-> emap[SortedKey(a[1], a[2])]],
         rank |-> [v \in CNodes |-> (CHOOSE k \in 1..Len(order) : order[k] = v) - 1]]
      Ordered(order) ==
        Made(order, Contract(G, order, 1, CNodes, [p \in CPairs |-> G[p]]))
  IN Ordered(NodeOrder(G, CNodes))

\* G_up.reverse(copy=True)
Reverse(up) == [a \in CArcs |-> up[<<a[2], a[1]>>]]

\* the parent chain from cur: the while loops of the path reconstruction
RECURSIVE Chain(_, _)
Chain(par, cur) == IF cur = 0 THEN <<>> ELSE <<cur>> \o Chain(par, par[cur])

RECURSIVE ReverseSeq(_)
ReverseSeq(q) == IF q = <<>> THEN <<>> ELSE Append(ReverseSeq(Tail(q)), Head(q))

\* total_weight: the sum of _edge_weight(G, a, b) along the path
RECURSIVE PathWeight(_, _)
PathWeight(G, path) ==
  IF Len(path) < 2 THEN 0
  ELSE Plus(G[<<path[1], path[2]>>], PathWeight(G, Tail(path)))

\* one direction of one iteration of the query loop: pop, relax the
\* neighbours in the searched graph, update the meeting candidate.
\* sd: the search of this direction, odist: dist of the other direction
HalfStep(up, sd, odist, bm) ==
  IF sd.pq = {} THEN [sd |-> sd, bm |-> bm, err |-> FALSE]
  ELSE LET e == MinPair(sd.pq)
           d == e[1]
           u == e[2]
           pq1 == sd.pq \ {e}
           better == {v \in CNodes \ {u} : up[<<u, v>>] < Inf /\ d + up[<<u, v>>] < sd.dist[v]}
           dist1 == [v \in CNodes |-> IF v \in better THEN d + up[<<u, v>>] ELSE sd.dist[v]]
           cand == Plus(dist1[u], odist[u])
       IN IF d # sd.dist[u]
          THEN [sd |-> [sd EXCEPT !.pq = pq1], bm |-> bm, err |-> FALSE]
          ELSE IF \A v \in CNodes \ {u} : up[<<u, v>>] >= Inf
          THEN \* u is not a node of G_up: neighbors(u) raises NetworkXError
               [sd |-> [sd EXCEPT !.pq = pq1, !.visit = Append(sd.visit, u)],
                bm |-> bm, err |-> TRUE]
          ELSE [sd |-> [dist |-> dist1,
                        par |-> [v \in CNodes |-> IF v \in better THEN u ELSE sd.par[v]],
                        pq |-> pq1 \cup {<<dist1[v], v>> : v \in better},
                        visit |-> Append(sd.visit, u)],
                bm |-> IF odist[u] < Inf /\ cand < bm.best
                       THEN [best |-> cand, meet |-> u] ELSE bm,
                err |-> FALSE]

\* a stop rule that takes every frontier for exhausted
TopExhausted(pq) == Inf

\* pq[0][0] if pq else float('inf')
Top(pq) == IF pq = {} THEN Inf ELSE MinPair(pq)[1]

NoSearch == [dist |-> [v \in CNodes |-> Inf], par |-> [v \in CNodes |-> 0],
             pq |-> {}, visit |-> <<>>]
StartSearch(s) == [dist |-> [v \in CNodes |-> IF v = s THEN 0 ELSE Inf],
                   par |-> [v \in CNodes |-> 0], pq |-> {<<0, s>>}, visit |-> <<>>]
Running == [kind |-> "running", path |-> <<>>, cost |-> 0]
ReturnNone == [kind |-> "None", path |-> <<>>, cost |-> 0]

ChStartState(G, s, t) ==
  /\ chG = G
  /\ chS = s
  /\ chT = t
  /\ chPhase = "start"
  /\ chUp = [a \in CArcs |-> Inf]
  /\ chRank = [v \in CNodes |-> 0]
  /\ chF = NoSearch
  /\ chB = NoSearch
  /\ chBest = [best |-> Inf, meet |-> 0]
  /\ chOut = Running

\* ch_shortest_path(G, source, target) on an undirected graph: every graph
\* in which the last node has no edge, and every ring through all the nodes
\* with weights 1..MaxRingW
ChInit ==
  \E s \in CNodes \cup {CAbsent}, t \in CNodes \cup {CAbsent} :
    \/ \E f \in [{p \in CPairs : p[2] < NumCNodes} -> CWeights \cup {Inf}] :
          ChStartState([a \in CArcs |->
                          IF a[1] = NumCNodes \/ a[2] = NumCNodes THEN Inf
                          ELSE f[SortedKey(a[1], a[2])]], s, t)
    \/ \E q \in {r \in [1..NumCNodes -> CNodes] :
                     /\ r[1] = 1
                     /\ \A i \in 1..NumCNodes : \A j \in 1..NumCNodes :
                           r[i] = r[j] => i = j} :
          \E w \in [1..NumCNodes -> 1..MaxRingW] :
             LET Hops(a) == {i \in 1..NumCNodes :
                               {a[1], a[2]} = {q[i], q[(i % NumCNodes) + 1]}}
             IN ChStartState([a \in CArcs |->
                                IF Hops(a) = {} THEN Inf
                                ELSE w[CHOOSE i \in Hops(a) : TRUE]], s, t)

ChIdle == ChStartState([a \in CArcs |-> Inf], 1, 1)

\* ch_shortest_path up to the query loop: the two early returns, the build
\* and the initial search state
ChBegin ==
  /\ chPhase = "start"
  /\ IF chS \notin CNodes \/ chT \notin CNodes
     THEN /\ chPhase' = "done"
          /\ chOut' = ReturnNone
          /\ UNCHANGED <<chUp, chRank, chF, chB>>
     ELSE IF chS = chT
     THEN /\ chPhase' = "done"
          /\ chOut' = [kind |-> "path", path |-> <<chS>>, cost |-> 0]
          /\ UNCHANGED <<chUp, chRank, chF, chB>>
     ELSE /\ chPhase' = "loop"
          /\ chOut' = Running
          /\ LET Built(b) == chUp' = b.up /\ chRank' = b.rank
             IN Built(BuildCH(chG))
          /\ chF' = StartSearch(chS)
          /\ chB' = StartSearch(chT)
  /\ UNCHANGED <<chG, chS, chT, chBest, pqVars, fhVars, jVars, tnrVars, yVars, lpaVars>>

\* one iteration of  while pq_f or pq_b
ChStep ==
  /\ chPhase = "loop"
  /\ LET f == HalfStep(chUp, chF, chB.dist, chBest)
         b == IF f.err THEN [sd |-> chB, bm |-> f.bm, err |-> TRUE]
              ELSE HalfStep(Reverse(chUp), chB, f.sd.dist, f.bm)
         stop == b.bm.best < Inf /\ Plus(Top(f.sd.pq), Top(b.sd.pq)) >= b.bm.best
     IN /\ chF' = f.sd
        /\ chB' = b.sd
        /\ chBest' = b.bm
        /\ chPhase' = IF b.err THEN "done"
                      ELSE IF stop \/ (f.sd.pq = {} /\ b.sd.pq = {}) THEN "after"
                      ELSE "loop"
        /\ chOut' = IF b.err THEN [kind |-> "NetworkXError", path |-> <<>>, cost |-> 0]
                    ELSE Running
  /\ UNCHANGED <<chG, chS, chT, chUp, chRank, pqVars, fhVars, jVars, tnrVars, yVars, lpaVars>>

\* after the loop: the fallback meeting node, the path and its weight in G
ChFinish ==
  /\ chPhase = "after"
  /\ LET common == {u \in CNodes : chF.dist[u] < Inf /\ chB.dist[u] < Inf}
         sum(u) == chF.dist[u] + chB.dist[u]
         bm == IF chBest.meet # 0 \/ common = {} THEN chBest
               ELSE LET u == CHOOSE x \in common : \A y \in common :
                               sum(x) < sum(y) \/ (sum(x) = sum(y) /\ x <= y)
                    IN [best |-> sum(u), meet |-> u]
         path == ReverseSeq(Chain(chF.par, bm.meet)) \o Chain(chB.par, chB.par[bm.meet])
     IN /\ chBest' = bm
        /\ chOut' = IF bm.meet = 0 THEN ReturnNone
                    ELSE [kind |-> "path", path |-> path, cost |-> PathWeight(chG, path)]
  /\ chPhase' = "done"
  /\ UNCHANGED <<chG, chS, chT, chUp, chRank, chF, chB, pqVars, fhVars, jVars, tnrVars, yVars, lpaVars>>

(***************************************************************************)
(* algorithms/TNR.py                                                       *)
(***************************************************************************)
TNodes == 1..NumTNodes
\* a node that is not in G
TAbsent == NumTNodes + 1
TArcs == {a \in TNodes \X TNodes : a[1] # a[2]}
TWeights == 1..MaxTW
\* search_limit=None
NoCutoff == -1

\* nx.single_source_dijkstra_path_length(G, v, cutoff, weight='weight') as the
\* loop of networkx's Dijkstra: pq holds (d, node), dist the settled nodes
\* (Inf: not in the returned dict); a relaxation beyond the cutoff is skipped
RECURSIVE DijkstraLengths(_, _, _, _)
DijkstraLengths(G, cutoff, pq, dist) ==
  IF pq = {} THEN dist
  ELSE LET e == MinPair(pq)
           d == e[1]
           v == e[2]
           dist1 == [dist EXCEPT ![v] = d]
       IN IF dist[v] < Inf THEN DijkstraLengths(G, cutoff, pq \ {e}, dist)
          ELSE DijkstraLengths(G, cutoff,
                 (pq \ {e}) \cup
                   {<<d + G[<<v, u>>], u>> : u \in
                      {x \in TNodes \ {v} : /\ G[<<v, x>>] < Inf
                                            /\ (cutoff = NoCutoff \/ d + G[<<v, x>>] <= cutoff)
                                            /\ dist1[x] >= Inf}},
                 dist1)
Lengths(G, v, cutoff) ==
  DijkstraLengths(G, cutoff, {<<0, v>>}, [x \in TNodes |-> Inf])

\* nx.shortest_path(G, source, target, weight='weight'): a shortest path as a
\* sequence, <<>> for NetworkXNoPath; among equally short paths the one
\* through the least predecessor (every choice has the same weight)
RECURSIVE PathBack(_, _, _, _)
PathBack(G, dist, s, t) ==
  IF t = s THEN <<s>>
  ELSE LET p == CHOOSE x \in TNodes \ {t} :
                  /\ dist[x] < Inf /\ G[<<x, t>>] < Inf
                  /\ dist[x] + G[<<x, t>>] = dist[t]
                  /\ \A y \in TNodes \ {t} :
                        (dist[y] < Inf /\ G[<<y, t>>] < Inf
                           /\ dist[y] + G[<<y, t>>] = dist[t]) => x <= y
       IN Append(PathBack(G, dist, s, p), t)
ShortestPath(G, s, t) ==
  LET dist == Lengths(G, s, NoCutoff)
  IN IF dist[t] >= Inf THEN <<>> ELSE PathBack(G, dist, s, t)

\* nx.path_weight(G, path, weight='weight') if len(path) >= 2 else 0.0
PathLength(G, path) == IF Len(path) >= 2 THEN PathWeight(G, path) ELSE 0

\* G.degree(n): the incident edges, in and out of a DiGraph
Degree(G, directed, n) ==
  Cardinality({u \in TNodes \ {n} : G[<<n, u>>] < Inf})
    + (IF directed THEN Cardinality({u \in TNodes \ {n} : G[<<u, n>>] < Inf}) ELSE 0)

\* sorted(G.nodes(), key=degree, reverse=True): descending degree, equal
\* degrees in node order (the sort is stable)
RECURSIVE ByDegree(_, _, _)
ByDegree(G, directed, S) ==
  IF S = {} THEN <<>>
  ELSE LET m == CHOOSE x \in S : \A y \in S :
                  \/ Degree(G, directed, x) > Degree(G, directed, y)
                  \/ (Degree(G, directed, x) = Degree(G, directed, y) /\ x <= y)
       IN <<m>> \o ByDegree(G, directed, S \ {m})

\* choose_transit_nodes(G, k, "degree")
ChooseTransitNodes(G, directed, k) ==
  IF k <= 0 THEN <<>>
  ELSE SubSeq(ByDegree(G, directed, TNodes), 1, Min2(k, NumTNodes))

\* compute_transit_pairwise_distances: dist[t][u], Inf where u is not reached
\* (and, as read by the query's .get, where there is no entry)
TransitPairwise(G, transit) ==
  LET ts == {transit[i] : i \in 1..Len(transit)}
  IN [a \in TNodes \X TNodes |->
        IF a[1] \in ts /\ a[2] \in ts THEN Lengths(G, a[1], NoCutoff)[a[2]] ELSE Inf]

\* t_with_dist.sort(key=dist) of the transit nodes in lengths, which the set
\* of small integers yields in ascending node order
RECURSIVE ByDist(_, _)
ByDist(lengths, S) ==
  IF S = {} THEN <<>>
  ELSE LET m == CHOOSE x \in S : \A y \in S :
                  lengths[x] < lengths[y] \/ (lengths[x] = lengths[y] /\ x <= y)
       IN <<<<m, lengths[m]>>>> \o ByDist(lengths, S \ {m})

\* compute_access_nodes(G, transit_set, max_access, search_limit)
AccessNodes(G, ts, maxAccess, limit) ==
  [v \in TNodes |->
     LET lengths == Lengths(G, v, limit)
         sorted == ByDist(lengths, {t \in ts : lengths[t] < Inf})
     IN SubSeq(sorted, 1, Min2(maxAccess, Len(sorted)))]

\* build_transit_index(G, k, "degree", max_access, search_limit)
BuildTransitIndex(G, directed, k, maxAccess, limit) ==
  LET transit == ChooseTransitNodes(G, directed, k)
  IN [transit |-> transit,
      dist |-> TransitPairwise(G, transit),
      access |-> AccessNodes(G, {transit[i] : i \in 1..Len(transit)}, maxAccess, limit)]

\* the length a transit candidate is accepted with: the recomputed weight of
\* the concatenated path, not the estimate total
AcceptedLengthTotal(total, length) == total
AcceptedLengthLeast(total, length) == IF total < length THEN total ELSE length
AcceptedLength(total, length) == length

\* the nested loops of the query from the pair (i, j) of the access lists;
\* best: [len, path, tried]
RECURSIVE EvalTransit(_, _, _, _, _, _, _)
EvalTransit(G, index, s, t, i, j, best) ==
  LET sa == index.access[s]
      ta == index.access[t]
  IN IF i > Len(sa) THEN best
     ELSE IF j > Len(ta) THEN EvalTransit(G, index, s, t, i + 1, 1, best)
     ELSE LET ts == sa[i][1]
              tt == ta[j][1]
              inter == index.dist[<<ts, tt>>]
              total == sa[i][2] + inter + ta[j][2]
              p1 == ShortestPath(G, s, ts)
              p2 == ShortestPath(G, ts, tt)
              p3 == ShortestPath(G, tt, t)
              path == p1 \o Tail(p2) \o Tail(p3)
              length == AcceptedLength(total, PathLength(G, path))
              tried == [best EXCEPT !.tried = @ + 1]
          IN IF inter >= Inf \/ ~(total < best.len)
             THEN EvalTransit(G, index, s, t, i, j + 1, best)
             ELSE IF p1 = <<>> \/ p2 = <<>> \/ p3 = <<>>
             THEN EvalTransit(G, index, s, t, i, j + 1, tried)
             ELSE IF length < best.len
             THEN EvalTransit(G, index, s, t, i, j + 1,
                              [len |-> length, path |-> path, tried |-> best.tried + 1])
             ELSE EvalTransit(G, index, s, t, i, j + 1, tried)

\* query_shortest_path_tnr(index, source, target): [kind, path, cost, tried]
QueryTnr(G, index, s, t) ==
  IF s \notin TNodes \/ t \notin TNodes
  THEN [kind |-> "None", path |-> <<>>, cost |-> 0, tried |-> 0]
  ELSE LET direct == ShortestPath(G, s, t)
           start == [len |-> IF direct = <<>> THEN Inf ELSE PathLength(G, direct),
                     path |-> direct, tried |-> 0]
           best == IF index.access[s] # <<>> /\ index.access[t] # <<>>
                   THEN EvalTransit(G, index, s, t, 1, 1, start) ELSE start
       IN IF best.path = <<>>
          THEN [kind |-> "None", path |-> <<>>, cost |-> 0, tried |-> best.tried]
          ELSE [kind |-> "path", path |-> best.path, cost |-> best.len,
                tried |-> best.tried]

NoIndex ==
  [transit |-> <<>>, dist |-> [a \in TNodes \X TNodes |-> Inf],
   access |-> [v \in TNodes |-> <<>>]]
NoOut == [kind |-> "running", path |-> <<>>, cost |-> 0]

TnrStartState(directed, G, k, maxAccess, limit) ==
  /\ tnrDirected = directed /\ tnrG = G
  /\ tnrK = k /\ tnrMaxAccess = maxAccess /\ tnrLimit = limit
  /\ tnrPhase = "start" /\ tnrIndex = NoIndex
  /\ tnrS = 1 /\ tnrT = 1 /\ tnrOut = NoOut /\ tnrTried = 0

\* a graph on TNodes, directed or not, with positive weights, and the
\* parameters of build_transit_index
TnrInit ==
  \E directed \in BOOLEAN, G \in [TArcs -> TWeights \cup {Inf}],
     k \in 0..MaxK, maxAccess \in 1..MaxAccess, limit \in {NoCutoff} \cup 1..MaxLimit :
       /\ directed \/ \A a \in TArcs : G[a] = G[<<a[2], a[1]>>]
       /\ TnrStartState(directed, G, k, maxAccess, limit)

TnrIdle == TnrStartState(FALSE, [a \in TArcs |-> Inf], 0, 1, NoCutoff)

\* idx = build_transit_index(G, k, "degree", max_access, search_limit)
TnrBuild ==
  /\ tnrPhase = "start"
  /\ tnrIndex' = BuildTransitIndex(tnrG, tnrDirected, tnrK, tnrMaxAccess, tnrLimit)
  /\ tnrPhase' = "built"
  /\ UNCHANGED <<tnrDirected, tnrG, tnrK, tnrMaxAccess, tnrLimit, tnrS, tnrT, tnrOut,
                 tnrTried, pqVars, fhVars, jVars, chVars, yVars, lpaVars>>

\* query_shortest_path_tnr(idx, source, target) on the built index; the
\* index serves further queries, here the return trip of the last one
TnrQuery(s, t) ==
  /\ \/ tnrPhase = "built"
     \/ tnrPhase = "done" /\ s = tnrT /\ t = tnrS
  /\ LET r == QueryTnr(tnrG, tnrIndex, s, t)
     IN /\ tnrOut' = [kind |-> r.kind, path |-> r.path, cost |-> r.cost]
        /\ tnrTried' = r.tried
  /\ tnrS' = s /\ tnrT' = t
  /\ tnrPhase' = "done"
  /\ UNCHANGED <<tnrDirected, tnrG, tnrK, tnrMaxAccess, tnrLimit, tnrIndex,
                 pqVars, fhVars, jVars, chVars, yVars, lpaVars>>

(***************************************************************************)
(* algorithms/Yen.py                                                       *)
(***************************************************************************)
YNodes == 1..NumYNodes
\* a node that is not in G
YAbsent == NumYNodes + 1
YArcs == {a \in YNodes \X YNodes : a[1] # a[2]}
YWeights == 1..MaxYW

\* The heap tuples (d, counter, u) and (total_cost, tie, total_path) as
\* numbers in the order of the tuples; counter and tie are unique, so the
\* first two components decide every comparison.
YBase == NumYNodes * NumYNodes + 1
YVal(d, c, u) == (d * YBase + c) * YBase + u

\* pq.push of each value of a sequence, in order
RECURSIVE FibPushAll(_, _)
FibPushAll(h, vals) ==
  IF vals = <<>> THEN h ELSE FibPushAll(FibPush(h, Head(vals)), Tail(vals))

\* the while loop of SP_with_bans; st: [dist, par, pq, counter, pops, err]
RECURSIVE SpLoop(_, _, _, _, _)
SpLoop(G, goal, bn, be, st) ==
  LET Body(r) ==
        LET u == r.res.pri % YBase
            d == r.res.pri \div (YBase * YBase)
            st1 == [st EXCEPT !.pq = r.heap, !.pops = @ + 1]
            upd == SeqOfSet({v \in YNodes \ (bn \cup {u}) :
                               /\ G[<<u, v>>] < Inf
                               /\ <<u, v>> \notin be
                               /\ d + G[<<u, v>>] < st.dist[v]})
            in(v) == \E k \in 1..Len(upd) : upd[k] = v
        IN IF r.res.kind # "value" THEN [st1 EXCEPT !.err = r.res.kind]
           ELSE IF u \in YNodes /\ d > st.dist[u] THEN SpLoop(G, goal, bn, be, st1)
           ELSE IF u = goal THEN st1
           ELSE IF u \in bn THEN SpLoop(G, goal, bn, be, st1)
           ELSE IF u \notin YNodes THEN [st1 EXCEPT !.err = "NetworkXError"]
           ELSE SpLoop(G, goal, bn, be,
                  [st1 EXCEPT
                     !.dist = [v \in YNodes |->
                                 IF in(v) THEN d + G[<<u, v>>] ELSE st.dist[v]],
                     !.par = [v \in YNodes |-> IF in(v) THEN u ELSE st.par[v]],
                     !.pq = FibPushAll(@,
                              [k \in 1..Len(upd) |->
                                 YVal(d + G[<<u, upd[k]>>], st.counter + k - 1, upd[k])]),
                     !.counter = @ + Len(upd)])
  IN IF FibIsEmpty(st.pq) THEN st ELSE Body(FibPop(st.pq))

\* SP_with_bans(start, goal, banned_nodes, banned_edges):
\* [res, path, cost, pops], res "path", "None" or the exception raised
SpWithBans(G, start, goal, bn, be) ==
  LET Result(st) ==
        IF st.err # ""
        THEN [res |-> st.err, path |-> <<>>, cost |-> 0, pops |-> st.pops]
        ELSE IF goal \notin YNodes \/ st.dist[goal] >= Inf
        THEN [res |-> "None", path |-> <<>>, cost |-> 0, pops |-> st.pops]
        ELSE [res |-> "path", path |-> ReverseSeq(Chain(st.par, goal)),
              cost |-> st.dist[goal], pops |-> st.pops]
  IN IF start \in bn \/ goal \in bn
     THEN [res |-> "None", path |-> <<>>, cost |-> 0, pops |-> 0]
     ELSE Result(SpLoop(G, goal, bn, be,
                   [dist |-> [v \in YNodes |-> IF v = start THEN 0 ELSE Inf],
                    par |-> [v \in YNodes |-> 0],
                    pq |-> FibPush(EmptyFib, YVal(0, 0, start)),
                    counter |-> 1, pops |-> 0, err |-> ""]))

\* banned_nodes = set(root_path[:-1])
BannedNodesNone(root, i) == {}
BannedNodes(root, i) == {root[k] : k \in 1..i}

\* total_cost = path_cost(root_path) + spur_cost
TotalCostSpurOnly(rootCost, spurCost) == spurCost
TotalCost(rootCost, spurCost) == rootCost + spurCost

BannedEdgesNone(directed, A, root, i) == {}
BannedEdgesLastOnly(directed, A, root, i) ==
  LET e == <<A[Len(A)].path[i + 1], A[Len(A)].path[i + 2]>>
  IN IF directed THEN {e} ELSE {e, <<e[2], e[1]>>}
\* the edges banned at spur index i (zero-based): the step after the root
\* in every accepted path that starts with the root, both ways if undirected
BannedEdges(directed, A, root, i) ==
  LET steps == {<<A[k].path[i + 1], A[k].path[i + 2]>> : k \in
                  {j \in 1..Len(A) : /\ Len(A[j].path) > i + 1
                                     /\ SubSeq(A[j].path, 1, i + 1) = root}}
  IN IF directed THEN steps ELSE steps \cup {<<e[2], e[1]>> : e \in steps}

\* the loop over the spur nodes of the last accepted path from index i;
\* bank: [heap, cands, pops, err]
RECURSIVE SpurLoop(_, _, _, _, _, _)
SpurLoop(G, directed, t, A, i, bank) ==
  LET last == A[Len(A)].path
      root == SubSeq(last, 1, i + 1)
      Spur(sp) ==
        LET total == SubSeq(root, 1, i) \o sp.path
            bank1 == [bank EXCEPT !.pops = @ + sp.pops]
        IN IF sp.res = "None" THEN SpurLoop(G, directed, t, A, i + 1, bank1)
           ELSE IF sp.res # "path" THEN [bank1 EXCEPT !.err = sp.res]
           ELSE IF \E k \in 1..Len(bank.cands) : bank.cands[k] = total
           THEN SpurLoop(G, directed, t, A, i + 1, bank1)
           ELSE SpurLoop(G, directed, t, A, i + 1,
                  [bank1 EXCEPT
                     !.heap = FibPush(@, TotalCost(PathWeight(G, root), sp.cost) * YBase
                                           + Len(bank.cands)),
                     !.cands = Append(@, total)])
  IN IF i > Len(last) - 2 \/ bank.err # "" THEN bank
     ELSE Spur(SpWithBans(G, last[i + 1], t, BannedNodes(root, i),
                          BannedEdges(directed, A, root, i)))

YRunning == [kind |-> "running", list |-> <<>>]
YReturn(A) == [kind |-> "list", list |-> A]

YStartState(directed, G, s, t, K) ==
  /\ yDirected = directed /\ yG = G /\ yS = s /\ yT = t /\ yK = K
  /\ yPhase = "start" /\ yA = <<>> /\ yB = EmptyFib /\ yCands = <<>>
  /\ yOut = YRunning /\ yPops = 0

\* The diamond A-B=1, A-C=1, B-D=1, C-D=1, A-D=5 with A..D numbered 1..4
Diamond ==
  [a \in YArcs |->
     IF {a[1], a[2]} \in {{1, 2}, {1, 3}, {2, 4}, {3, 4}} THEN 1
     ELSE IF {a[1], a[2]} = {1, 4} THEN 5 ELSE Inf]

\* yen(G, source, target, K) on an undirected graph with positive weights or
\* on the directed graph that keeps its edges from the lower to the higher
\* node; K counts the requested paths (K >= 1)
YInit ==
  \/ \E directed \in BOOLEAN, f \in [{a \in YArcs : a[1] < a[2]} -> YWeights \cup {Inf}],
        s \in YNodes \cup {YAbsent}, t \in YNodes \cup {YAbsent}, K \in 1..MaxYK :
          YStartState(directed,
                      [a \in YArcs |-> IF a[1] < a[2] THEN f[a]
                                       ELSE IF directed THEN Inf ELSE f[<<a[2], a[1]>>]],
                      s, t, K)
  \/ \E K \in 1..MaxYK : YStartState(FALSE, Diamond, 1, 4, K)

YIdle == YStartState(FALSE, [a \in YArcs |-> Inf], 1, 1, 1)

\* yen up to its loop: the source == target return and the first path
YenBegin ==
  /\ yPhase = "start"
  /\ LET First(first) ==
           LET A == <<[path |-> first.path, cost |-> first.cost]>>
           IN /\ yPops' = first.pops
              /\ yA' = IF first.res = "path" THEN A ELSE <<>>
              /\ yOut' = IF first.res = "None" THEN YReturn(<<>>)
                         ELSE IF first.res # "path"
                         THEN [kind |-> first.res, list |-> <<>>]
                         ELSE IF yK <= 1 THEN YReturn(A) ELSE YRunning
              /\ yPhase' = IF first.res = "path" /\ yK > 1 THEN "loop" ELSE "done"
     IN IF yS = yT
        THEN /\ yOut' = YReturn(<<[path |-> <<yS>>, cost |-> 0]>>)
             /\ yPhase' = "done"
             /\ UNCHANGED <<yA, yPops>>
        ELSE First(SpWithBans(yG, yS, yT, {}, {}))
  /\ UNCHANGED <<yDirected, yG, yS, yT, yK, yB, yCands,
                 pqVars, fhVars, jVars, chVars, tnrVars, lpaVars>>

\* one iteration of  for _ in range(1, K): the spur loop, then either the
\* break on an empty bank or the pop of the cheapest candidate into A
YenRound ==
  /\ yPhase = "loop"
  /\ LET Raise(e, heap) ==
           /\ yOut' = [kind |-> e, list |-> <<>>]
           /\ yPhase' = "done"
           /\ yB' = heap
           /\ UNCHANGED yA
         Pop(cands, r) ==
           LET A == Append(yA, [path |-> cands[(r.res.pri % YBase) + 1],
                                cost |-> r.res.pri \div YBase])
           IN IF r.res.kind # "value" THEN Raise(r.res.kind, r.heap)
              ELSE /\ yA' = A
                   /\ yB' = r.heap
                   /\ yOut' = IF Len(A) >= yK THEN YReturn(A) ELSE YRunning
                   /\ yPhase' = IF Len(A) >= yK THEN "done" ELSE "loop"
         Round(bank) ==
           /\ yCands' = bank.cands
           /\ yPops' = bank.pops
           /\ IF bank.err # "" THEN Raise(bank.err, bank.heap)
              ELSE IF FibIsEmpty(bank.heap)
              THEN /\ yOut' = YReturn(yA)
                   /\ yPhase' = "done"
                   /\ yB' = bank.heap
                   /\ UNCHANGED yA
              ELSE Pop(bank.cands, FibPop(bank.heap))
     IN Round(SpurLoop(yG, yDirected, yT, yA, 0,
                       [heap |-> yB, cands |-> yCands, pops |-> yPops, err |-> ""]))
  /\ UNCHANGED <<yDirected, yG, yS, yT, yK, pqVars, fhVars, jVars, chVars, tnrVars, lpaVars>>

(***************************************************************************)
(* algorithms/LPAs.py: lpa_star with the default (zero) heuristic.  The    *)
(* graph is a weight per ordered pair of Nodes (Inf: no edge), symmetric   *)
(* for an nx.Graph.  With the zero heuristic the key (m + 0.0, m) of a     *)
(* node is ordered as the number m.  The PQ of LPAs.py is ds/PQ.py's code  *)
(* (PushResult, PopResult); node u is the item 2u + 2, so that the         *)
(* sentinel '<removed>' sorts before every node label ('A', 'B', ...).     *)
(* The locals are the record st = [g, rhs, heap, finder, next, err].       *)
(***************************************************************************)
\* an update_vertex that pushes u with the key it had before rhs[u] changed
UpdateVertexOldKey(kind, G, source, st, u) ==
  LET cands == {Plus(st.g[p], G[<<p, u>>]) : p \in Nodes \ {u}} \cup {Inf}
      r == IF u # source
           THEN [st.rhs EXCEPT ![u] = CHOOSE m \in cands : \A x \in cands : m <= x]
           ELSE st.rhs
      Pushed(pr) == [st EXCEPT !.rhs = r, !.heap = pr.heap, !.finder = pr.finder,
                               !.next = st.next + 1,
                               !.err = IF pr.res.kind = "none" THEN "" ELSE pr.res.kind]
  IN IF r[u] # st.g[u]
     THEN Pushed(PushResult(kind, st.heap, st.finder, st.next, 2 * u + 2,
                            Min2(st.g[u], st.rhs[u])))
     ELSE [st EXCEPT !.rhs = r]

\* an update_vertex that leaves rhs[u] as it is
UpdateVertexKeepRhs(kind, G, source, st, u) ==
  LET Pushed(pr) == [st EXCEPT !.heap = pr.heap, !.finder = pr.finder,
                               !.next = st.next + 1,
                               !.err = IF pr.res.kind = "none" THEN "" ELSE pr.res.kind]
  IN IF st.rhs[u] # st.g[u]
     THEN Pushed(PushResult(kind, st.heap, st.finder, st.next, 2 * u + 2,
                            Min2(st.g[u], st.rhs[u])))
     ELSE st

\* an update_vertex that pushes u whether or not g[u] and rhs[u] differ
UpdateVertexPushing(kind, G, source, st, u) ==
  LET cands == {Plus(st.g[p], G[<<p, u>>]) : p \in Nodes \ {u}} \cup {Inf}
      r == IF u # source
           THEN [st.rhs EXCEPT ![u] = CHOOSE m \in cands : \A x \in cands : m <= x]
           ELSE st.rhs
      Pushed(pr) == [st EXCEPT !.rhs = r, !.heap = pr.heap, !.finder = pr.finder,
                               !.next = st.next + 1,
                               !.err = IF pr.res.kind = "none" THEN "" ELSE pr.res.kind]
  IN Pushed(PushResult(kind, st.heap, st.finder, st.next, 2 * u + 2,
                       Min2(st.g[u], r[u])))

\* update_vertex(u, pq)
UpdateVertex(kind, G, source, st, u) ==
  LET cands == {Plus(st.g[p], G[<<p, u>>]) : p \in Nodes \ {u}} \cup {Inf}
      r == IF u # source
           THEN [st.rhs EXCEPT ![u] = CHOOSE m \in cands : \A x \in cands : m <= x]
           ELSE st.rhs
      Pushed(pr) == [st EXCEPT !.rhs = r, !.heap = pr.heap, !.finder = pr.finder,
                               !.next = st.next + 1,
                               !.err = IF pr.res.kind = "none" THEN "" ELSE pr.res.kind]
  IN IF r[u] # st.g[u]
     THEN Pushed(PushResult(kind, st.heap, st.finder, st.next, 2 * u + 2,
                            Min2(st.g[u], r[u])))
     ELSE [st EXCEPT !.rhs = r]

\* update_vertex on each node of the sequence us, until one raises
RECURSIVE UpdateAll(_, _, _, _, _)
UpdateAll(kind, G, source, st, us) ==
  IF us = <<>> \/ st.err # "" THEN st
  ELSE UpdateAll(kind, G, source, UpdateVertex(kind, G, source, st, Head(us)), Tail(us))

\* one iteration of the main loop: [st, ctl], ctl = "break", "continue" or
\* the exception raised
LpaIter(kind, G, source, target, st) ==
  LET Key(x, u) == Min2(x.g[u], x.rhs[u])
      Node(item) == (item - 2) \div 2
      \* succs(u) in iteration order
      Succs(u) == SeqOfSet({v \in Nodes \ {u} : G[<<u, v>>] < Inf})
      Empty(x) == (\A i \in DOMAIN x.finder : x.finder[i] = 0) \/ Len(x.heap) = 0
      Out(x, c) == [st |-> x, ctl |-> IF x.err # "" THEN x.err ELSE c]
      Repushed(x, pr) ==
        [x EXCEPT !.heap = pr.heap, !.finder = pr.finder, !.next = x.next + 1,
                  !.err = IF pr.res.kind = "none" THEN "" ELSE pr.res.kind]
      Repush(x, u) ==
        Repushed(x, PushResult(kind, x.heap, x.finder, x.next, 2 * u + 2, Key(x, u)))
      Relax(x, u) ==
        IF x.g[u] > x.rhs[u]
        THEN UpdateAll(kind, G, source, [x EXCEPT !.g[u] = x.rhs[u]], Succs(u))
        ELSE UpdateAll(kind, G, source, [x EXCEPT !.g[u] = Inf], <<u>> \o Succs(u))
      Popped(x, pr) ==
        IF pr.res.kind # "pair"
        THEN [st |-> [x EXCEPT !.heap = pr.heap, !.finder = pr.finder, !.err = pr.res.kind],
              ctl |-> pr.res.kind]
        ELSE IF pr.res.pri < Key(x, Node(pr.res.item))
             THEN Out(Repush([x EXCEPT !.heap = pr.heap, !.finder = pr.finder],
                             Node(pr.res.item)), "continue")
             ELSE Out(Relax([x EXCEPT !.heap = pr.heap, !.finder = pr.finder],
                            Node(pr.res.item)), "continue")
      Body(x) == Popped(x, PopResult(kind, x.heap, x.finder))
      \* pq_top_key(): [st, key]
      TopPopped(x, pr) ==
        IF pr.res.kind # "pair"
        THEN [st |-> [x EXCEPT !.heap = pr.heap, !.finder = pr.finder, !.err = pr.res.kind],
              key |-> Inf]
        ELSE [st |-> Repush([x EXCEPT !.heap = pr.heap, !.finder = pr.finder],
                            Node(pr.res.item)),
              key |-> Key(x, Node(pr.res.item))]
      PqTopKey(x) ==
        IF Empty(x) THEN [st |-> x, key |-> Inf]
        ELSE TopPopped(x, PopResult(kind, x.heap, x.finder))
      Compared(tk) ==
        IF tk.st.err # "" THEN Out(tk.st, "")
        ELSE IF tk.key >= Key(tk.st, target) THEN Out(tk.st, "break")
        ELSE Body(tk.st)
  IN IF st.rhs[target] = st.g[target] THEN Compared(PqTopKey(st)) ELSE Body(st)

LNone == [kind |-> "None", path |-> <<>>, cost |-> 0]

\* a path extraction that adds g(best) + w(u, best) to the cost
RECURSIVE ExtractPathByCand(_, _, _, _, _, _)
ExtractPathByCand(G, target, g, path, cost, guard) ==
  LET u == path[Len(path)]
      Cand(v) == Plus(g[v], G[<<u, v>>])
      finite == {v \in Nodes \ {u} : G[<<u, v>>] < Inf /\ Cand(v) < Inf}
      best == CHOOSE v \in finite :
                \A x \in finite : Cand(v) < Cand(x) \/ (Cand(v) = Cand(x) /\ v <= x)
  IN IF u = target THEN [kind |-> "path", path |-> path, cost |-> cost]
     ELSE IF guard >= NumNodes + 6 THEN LNone
     ELSE IF finite = {} THEN LNone
     ELSE ExtractPathByCand(G, target, g, Append(path, best), cost + Cand(best), guard + 1)

\* the path extraction of lines 142-165 from the walk so far
RECURSIVE ExtractPath(_, _, _, _, _, _)
ExtractPath(G, target, g, path, cost, guard) ==
  LET u == path[Len(path)]
      Cand(v) == Plus(g[v], G[<<u, v>>])
      finite == {v \in Nodes \ {u} : G[<<u, v>>] < Inf /\ Cand(v) < Inf}
      best == CHOOSE v \in finite :
                \A x \in finite : Cand(v) < Cand(x) \/ (Cand(v) = Cand(x) /\ v <= x)
  IN IF u = target THEN [kind |-> "path", path |-> path, cost |-> cost]
     ELSE IF guard >= NumNodes + 6 THEN LNone
     ELSE IF finite = {} THEN LNone
     ELSE ExtractPath(G, target, g, Append(path, best), cost + G[<<u, best>>], guard + 1)

LpaNoState == [g |-> <<>>, rhs |-> <<>>, heap |-> <<>>, finder |-> <<>>, next |-> 0, err |-> ""]

\* the locals after lines 80-103 taken over from the previous call
LpaResumed(kind, source, prev) ==
  LET Made(pr) == [g |-> IF prev = LpaNoState THEN [v \in Nodes |-> Inf] ELSE prev.g,
                   rhs |-> IF prev = LpaNoState
                           THEN [v \in Nodes |-> IF v = source THEN 0 ELSE Inf]
                           ELSE prev.rhs,
                   heap |-> pr.heap, finder |-> pr.finder, next |-> 2, err |-> ""]
  IN Made(PushResult(kind, <<>>, [i \in {2 * v + 2 : v \in Nodes} |-> 0], 1,
                     2 * source + 2, 0))
\* the locals after lines 80-103: g, rhs and pq are created by the call,
\* whatever the locals prev of an earlier call were
LpaFresh(kind, source, prev) ==
  LET Made(pr) == [g |-> [v \in Nodes |-> Inf],
                   rhs |-> [v \in Nodes |-> IF v = source THEN 0 ELSE Inf],
                   heap |-> pr.heap, finder |-> pr.finder, next |-> 2, err |-> ""]
  IN Made(PushResult(kind, <<>>, [i \in {2 * v + 2 : v \in Nodes} |-> 0], 1,
                     2 * source + 2, 0))

LpaStartState(kind, directed, G, s, t) ==
  /\ lpaKind = kind /\ lpaDirected = directed /\ lpaG = G /\ lpaS = s /\ lpaT = t
  /\ lpaPhase = "start" /\ lpaSt = LpaNoState
  /\ lpaOut = [kind |-> "running", path |-> <<>>, cost |-> 0]
  /\ lpaIters = 0 /\ lpaSolves = 0 /\ lpaFirst = LNone

LpaIdle == LpaStartState("str", FALSE, [a \in Arcs |-> Inf], 1, 1)

\* lines 59-103
LpaBegin ==
  /\ lpaPhase = "start"
  /\ lpaSolves' = lpaSolves + 1
  /\ lpaIters' = 0
  /\ IF lpaS \notin Nodes \/ lpaT \notin Nodes
     THEN lpaOut' = LNone /\ lpaPhase' = "done" /\ lpaSt' = LpaNoState
     ELSE IF lpaS = lpaT
     THEN /\ lpaOut' = [kind |-> "path", path |-> <<lpaS>>, cost |-> 0]
          /\ lpaPhase' = "done" /\ lpaSt' = LpaNoState
     ELSE /\ lpaSt' = LpaFresh(lpaKind, lpaS, lpaSt)
          /\ lpaPhase' = "loop"
          /\ lpaOut' = [kind |-> "running", path |-> <<>>, cost |-> 0]
  /\ UNCHANGED <<lpaKind, lpaDirected, lpaG, lpaS, lpaT, lpaFirst, pqVars, fhVars, jVars,
                 chVars, tnrVars, yVars>>

\* one iteration of the main loop (lines 113-132)
LpaStep ==
  /\ lpaPhase = "loop"
  /\ lpaIters < MaxLIters
  /\ LET Done(r) ==
           /\ lpaSt' = r.st
           /\ lpaPhase' = IF r.ctl = "continue" THEN "loop"
                          ELSE IF r.ctl = "break" THEN "extract" ELSE "done"
           /\ lpaOut' = IF r.ctl \in {"continue", "break"} THEN lpaOut
                        ELSE [kind |-> r.ctl, path |-> <<>>, cost |-> 0]
     IN Done(LpaIter(lpaKind, lpaG, lpaS, lpaT, lpaSt))
  /\ lpaIters' = lpaIters + 1
  /\ UNCHANGED <<lpaKind, lpaDirected, lpaG, lpaS, lpaT, lpaSolves, lpaFirst, pqVars,
                 fhVars, jVars, chVars, tnrVars, yVars>>

\* lines 134-165
LpaFinish ==
  /\ lpaPhase = "extract"
  /\ lpaOut' = IF lpaSt.g[lpaT] >= Inf THEN LNone
               ELSE ExtractPath(lpaG, lpaT, lpaSt.g, <<lpaS>>, 0, 0)
  /\ lpaPhase' = "done"
  /\ UNCHANGED <<lpaKind, lpaDirected, lpaG, lpaS, lpaT, lpaSt, lpaIters, lpaSolves,
                 lpaFirst, pqVars, fhVars, jVars, chVars, tnrVars, yVars>>

\* the caller changes the weight of one edge after the first solve and
\* calls lpa_star again with the same source and target
LpaMutate ==
  /\ lpaPhase = "done" /\ lpaSolves = 1
  /\ lpaS \in Nodes /\ lpaT \in Nodes /\ lpaS # lpaT
  /\ \E a \in Arcs, w \in 1..MaxLW :
        /\ lpaG[a] < Inf /\ w # lpaG[a]
        /\ lpaG' = [b \in Arcs |->
                      IF b = a \/ (~lpaDirected /\ b = <<a[2], a[1]>>) THEN w ELSE lpaG[b]]
  /\ lpaPhase' = "start"
  /\ lpaFirst' = lpaOut
  /\ UNCHANGED <<lpaKind, lpaDirected, lpaS, lpaT, lpaSt, lpaOut, lpaIters, lpaSolves,
                 pqVars, fhVars, jVars, chVars, tnrVars, yVars>>

(***************************************************************************)
(* Claims on algorithms/Johnson.py                                         *)
(***************************************************************************)
\* ground truth: all-pairs distances on the nodes 1..n by Floyd-Warshall
RECURSIVE FloydWarshall(_, _, _)
FloydWarshall(d, k, n) ==
  IF k > n THEN d
  ELSE FloydWarshall(
         [a \in (1..n) \X (1..n) |->
            Min2(d[a], Plus(d[<<a[1], k>>], d[<<k, a[2]>>]))], k + 1, n)

\* the distances of johnson's input G, weights read with the default 1
AllPairs(G) ==
  FloydWarshall([a \in Nodes \X Nodes |->
                   IF a[1] = a[2] THEN 0
                   ELSE IF G[a].edge THEN GetWeight(G[a]) ELSE Inf], 1, NumNodes)
HasNegativeCycle(G) == \E v \in Nodes : AllPairs(G)[<<v, v>>] < 0
AllWeighted(G) == \A a \in Arcs : G[a].edge => G[a].attr
HasNegativeEdge(G) == \E a \in Arcs : G[a].edge /\ GetWeight(G[a]) < 0

\* C5: on a weighted graph without a negative cycle johnson returns the
\* table of the true shortest distances, infinite exactly for the pairs
\* with no path.
C5_JohnsonDistances ==
  (jPhase = "done" /\ AllWeighted(jG) /\ ~HasNegativeCycle(jG)) =>
     /\ jOut = "table"
     /\ \A s \in Nodes : \A v \in Nodes : jDist[s][v] = AllPairs(jG)[<<s, v>>]

\* a finished run on a directed graph with a negative edge, one pair
\* unreachable and one pair at a negative distance
C5_Witness ==
  /\ jOut = "table"
  /\ jDirected
  /\ HasNegativeEdge(jG)
  /\ \E s \in Nodes : \E v \in Nodes : jDist[s][v] >= Inf
  /\ \E s \in Nodes : \E v \in Nodes : jDist[s][v] < 0

\* C6: once the potential pass has completed without reporting a negative
\* cycle and the edges are reweighted, every edge the search follows from u
\* to v weighs weight(u,v) + potential(u) - potential(v), and that is >= 0.
C6_ReweightedNonNegative ==
  (jPhase = "search" \/ jOut = "table") =>
     \A a \in Arcs : jG[a].edge =>
        /\ jAug[a].w = jG[a].w + jPot[a[1]] - jPot[a[2]]
        /\ jAug[a].w >= 0

\* reweighting has changed a negative edge
C6_Witness ==
  /\ jPhase = "search"
  /\ \E a \in Arcs : jG[a].edge /\ jG[a].w < 0 /\ jAug[a].w >= 0
  /\ \E a \in Arcs : jG[a].edge /\ jG[a].w >= 0 /\ jAug[a].w # jG[a].w

\* every node enters the queue at most len(G_aug.nodes) + 1 times, and the
\* pass dequeues one node per iteration
SpfaStepBound == Cardinality(AugNodes) * (Cardinality(AugNodes) + 1) + 1

\* the guard of one of the steps of johnson holds
JCanStep ==
  \/ jPhase = "spfa" /\ jQueue # <<>>
  \/ jPhase = "spfa" /\ jQueue = <<>>
  \/ jPhase = "search" /\ jSrc < NumNodes

\* C7: on a graph with a negative cycle johnson ends with the signal None
\* and builds no table; it does end: the pass stops within SpfaStepBound
\* iterations and a call that has not returned can always take its next
\* step; and no graph without a negative cycle ends with the signal None.
C7_NegativeCycleSignal ==
  /\ HasNegativeCycle(jG) =>
        /\ jPhase \in {"spfa", "done"}
        /\ jPhase = "done" => jOut = "None"
        /\ jDist = [s \in Nodes |-> [v \in Nodes |-> Inf]]
  /\ (jPhase = "done" /\ ~HasNegativeCycle(jG)) => jOut \in {"table", "KeyError"}
  /\ jSteps <= SpfaStepBound
  /\ jPhase # "done" => JCanStep

\* the signal given for a directed and for an undirected negative cycle
C7_Witness ==
  /\ jOut = "None"
  /\ HasNegativeCycle(jG)
  /\ \E a \in Arcs : jG[a].edge /\ ~jG[<<a[2], a[1]>>].edge
  /\ \E v \in Nodes : jCnt[v] > Cardinality(AugNodes)

\* C19: an edge without a weight attribute counts as weight 1 in all three
\* phases: johnson completes and returns the distances of the graph in
\* which that edge weighs 1.
C19_BareEdgeWeighsOne ==
  (jPhase = "done" /\ ~AllWeighted(jG) /\ ~HasNegativeCycle(jG)) =>
     /\ jOut = "table"
     /\ \A s \in Nodes : \A v \in Nodes : jDist[s][v] = AllPairs(jG)[<<s, v>>]

(***************************************************************************)
(* Claims on algorithms/Contraction Hierarchies.py                         *)
(***************************************************************************)
\* the distances of a graph given by its weights on the ordered pairs of 1..n
TrueDist(G, n) ==
  FloydWarshall([a \in (1..n) \X (1..n) |-> IF a[1] = a[2] THEN 0 ELSE G[a]], 1, n)

\* C8: for connected source # target the cost returned by ch_shortest_path
\* is the shortest-path cost in G.
C8_ChCostIsShortest ==
  (/\ chPhase = "done"
   /\ chS \in CNodes /\ chT \in CNodes /\ chS # chT
   /\ TrueDist(chG, NumCNodes)[<<chS, chT>>] < Inf) =>
     /\ chOut.kind = "path"
     /\ chOut.cost = TrueDist(chG, NumCNodes)[<<chS, chT>>]

C20_ChSearchAscends ==
  chPhase \in {"loop", "after", "done"} =>
     \A v \in CNodes :
        /\ chF.par[v] # 0 => chRank[v] > chRank[chF.par[v]]
        /\ chB.par[v] # 0 => chRank[v] > chRank[chB.par[v]]

\* the shortest distance from p[1] to p[2] in G over the paths whose
\* intermediate nodes all have a lower rank than both p[1] and p[2]
LowerRankDist(G, rank, p) ==
  LET low == {x \in CNodes : rank[x] < rank[p[1]] /\ rank[x] < rank[p[2]]}
      keep == low \cup {p[1], p[2]}
  IN TrueDist([a \in CArcs |-> IF a[1] \in keep /\ a[2] \in keep THEN G[a] ELSE Inf],
              NumCNodes)[p]

\* build_contraction_hierarchy has run: the ranks are assigned
ChBuilt == \E v \in CNodes : chRank[v] # 0

\* the pairs for which the build recorded a shortcut: their entry of the
\* edge map differs from the edge of G
ShortcutPairs == {p \in CPairs : chUp[p] # chG[p]}

\* C21: the cost of every recorded shortcut is the shortest distance between
\* its endpoints over the paths through nodes of lower rank than both.
C21_ShortcutIsLowerRankDist ==
  ChBuilt => \A p \in ShortcutPairs : chUp[p] = LowerRankDist(chG, chRank, p)

\* C22: when the query loop stops with a meeting node, best_distance is the
\* shortest distance from source to target in the shortcut graph G_up.
C22_BestIsUpDist ==
  (chPhase = "after" /\ chBest.meet # 0) =>
     chBest.best = TrueDist(chUp, NumCNodes)[<<chS, chT>>]

\* the loop stopped by its rule while both frontiers still held entries, at a
\* meeting node other than source and target, over a recorded shortcut
C22_Witness ==
  /\ chPhase = "after"
  /\ chBest.meet \notin {0, chS, chT}
  /\ chF.pq # {} /\ chB.pq # {}
  /\ ShortcutPairs # {}
  /\ chBest.best = TrueDist(chUp, NumCNodes)[<<chS, chT>>]

(***************************************************************************)
(* Claims on algorithms/TNR.py                                             *)
(***************************************************************************)
\* C10: whatever k, max_access and search_limit the index was built with, for
\* a connected pair query_shortest_path_tnr returns a cost that is never
\* below the true shortest-path cost.
C10_TnrNeverUnderestimates ==
  (/\ tnrPhase = "done"
   /\ tnrS \in TNodes /\ tnrT \in TNodes
   /\ TrueDist(tnrG, NumTNodes)[<<tnrS, tnrT>>] < Inf) =>
     /\ tnrOut.kind = "path"
     /\ tnrOut.cost >= TrueDist(tnrG, NumTNodes)[<<tnrS, tnrT>>]

\* a query on a connected pair in which a transit candidate with an estimate
\* below the baseline was materialised and its weight recomputed
C10_Witness ==
  /\ tnrPhase = "done"
  /\ tnrS \in TNodes /\ tnrT \in TNodes /\ tnrS # tnrT
  /\ TrueDist(tnrG, NumTNodes)[<<tnrS, tnrT>>] < Inf
  /\ tnrOut.kind = "path"
  /\ tnrTried > 0
  /\ tnrLimit # NoCutoff

\* C29: whatever index the query runs on, query_shortest_path_tnr returns
\* the baseline direct shortest path with the exact shortest cost (None when
\* there is no path): no transit candidate passes both strict tests, so the
\* result does not depend on k, max_access or search_limit.
C29_TnrIsBaseline ==
  (tnrPhase = "done" /\ tnrS \in TNodes /\ tnrT \in TNodes) =>
     IF ShortestPath(tnrG, tnrS, tnrT) = <<>>
     THEN tnrOut.kind = "None" /\ TrueDist(tnrG, NumTNodes)[<<tnrS, tnrT>>] >= Inf
     ELSE /\ tnrOut.kind = "path"
          /\ tnrOut.path = ShortestPath(tnrG, tnrS, tnrT)
          /\ tnrOut.cost = TrueDist(tnrG, NumTNodes)[<<tnrS, tnrT>>]

\* a query on a directed graph, index built without cutoff, in which a
\* transit candidate passed total < best_len and was materialised, and the
\* baseline path over two edges was returned
C29_Witness ==
  /\ tnrPhase = "done" /\ tnrDirected /\ tnrLimit = NoCutoff
  /\ tnrS \in TNodes /\ tnrT \in TNodes
  /\ tnrTried > 0
  /\ tnrOut.kind = "path" /\ Len(tnrOut.path) = 3
  /\ tnrOut.path = ShortestPath(tnrG, tnrS, tnrT)

(***************************************************************************)
(* Claims on algorithms/Yen.py                                             *)
(***************************************************************************)
\* the paths of a list of (path, cost) entries
YPaths(A) == [i \in 1..Len(A) |-> A[i].path]
YSimple(p) == \A i, j \in 1..Len(p) : i # j => p[i] # p[j]
YInGraph(G, p) == \A i \in 1..(Len(p) - 1) : G[<<p[i], p[i + 1]>>] < Inf

\* C11: every path that yen accepts or returns runs from source to target
\* along edges of G and visits no node more than once.
C11_YenLoopless ==
  \A A \in {yA, yOut.list} : \A i \in 1..Len(A) :
     /\ A[i].path # <<>>
     /\ A[i].path[1] = yS
     /\ A[i].path[Len(A[i].path)] = yT
     /\ YInGraph(yG, A[i].path)
     /\ YSimple(A[i].path)

\* a returned list of three paths, the last found by a spur search that
\* left the root at its second node
C11_Witness ==
  /\ yOut.kind = "list" /\ Len(yOut.list) = 3
  /\ Len(yOut.list[3].path) = 4
  /\ yOut.list[3].path[2] = yOut.list[2].path[2]
  /\ yOut.list[3].path[3] # yOut.list[2].path[3]

\* C12: the list is ordered by non-decreasing cost.
C12_YenCostOrder ==
  \A A \in {yA, yOut.list} : \A i \in 1..(Len(A) - 1) : A[i].cost <= A[i + 1].cost

\* three returned paths where the second ties with the first and the third
\* costs more
C12_Witness ==
  /\ yOut.kind = "list" /\ Len(yOut.list) = 3
  /\ yOut.list[1].cost = yOut.list[2].cost
  /\ yOut.list[2].cost < yOut.list[3].cost

\* C13: the accepted paths are pairwise distinct node sequences, and a
\* popped candidate is never a path accepted before.
C13_YenDistinct ==
  \A A \in {yA, yOut.list} : \A i, j \in 1..Len(A) : i # j => A[i].path # A[j].path

\* a third path was accepted from a bank that held it next to other candidates
C13_Witness ==
  /\ yPhase = "done" /\ Len(yA) = 3 /\ Len(yCands) >= 3
  /\ \E k \in 1..Len(yCands) : yCands[k] = yA[3].path

\* ground truth: the simple source-target paths of G
SimplePaths(G, s, t) ==
  UNION {{p \in [1..n -> YNodes] : /\ p[1] = s /\ p[n] = t
                                   /\ YSimple(p) /\ YInGraph(G, p)} : n \in 1..NumYNodes}
\* the i-th smallest cost among the paths P
KthCost(G, P, i) ==
  CHOOSE c \in {PathWeight(G, p) : p \in P} :
    /\ Cardinality({p \in P : PathWeight(G, p) < c}) < i
    /\ Cardinality({p \in P : PathWeight(G, p) <= c}) >= i

C15_LpaShortestCost ==
  (lpaPhase = "done" /\ lpaS \in Nodes /\ lpaT \in Nodes
     /\ TrueDist(lpaG, NumNodes)[<<lpaS, lpaT>>] < Inf) =>
        /\ lpaOut.kind = "path"
        /\ lpaOut.path[1] = lpaS
        /\ lpaOut.path[Len(lpaOut.path)] = lpaT
        /\ lpaOut.cost = TrueDist(lpaG, NumNodes)[<<lpaS, lpaT>>]

\* the main loop from the locals st, iteration n onwards: [st, ctl]
RECURSIVE LpaLoop(_, _, _, _, _, _)
LpaLoop(kind, G, s, t, st, n) ==
  LET Go(r) == IF r.ctl = "continue" /\ n + 1 < MaxLIters
               THEN LpaLoop(kind, G, s, t, r.st, n + 1) ELSE r
  IN Go(LpaIter(kind, G, s, t, st))

\* the result of one call of lpa_star(G, s, t) that starts from nothing
LpaSolve(kind, G, s, t) ==
  LET Fin(r) == IF r.ctl # "break" THEN [kind |-> r.ctl, path |-> <<>>, cost |-> 0]
                ELSE IF r.st.g[t] >= Inf THEN LNone
                ELSE ExtractPath(G, t, r.st.g, <<s>>, 0, 0)
  IN IF s \notin Nodes \/ t \notin Nodes THEN LNone
     ELSE IF s = t THEN [kind |-> "path", path |-> <<s>>, cost |-> 0]
     ELSE Fin(LpaLoop(kind, G, s, t, LpaFresh(kind, s, LpaNoState), 0))

LpaQueued(u) == lpaSt.finder[2 * u + 2] # 0

\* the main loop is at the start of an iteration, or has just left by break
LpaAtLoop == lpaPhase \in {"loop", "extract"}

\* C23: at the start of every iteration of the main loop a node is in the
\* queue if and only if its g and rhs differ; a node that update_vertex left
\* with g = rhs during the iteration before is not in the queue.
C23_QueueIsInconsistent ==
  LpaAtLoop => \A u \in Nodes : LpaQueued(u) <=> lpaSt.g[u] # lpaSt.rhs[u]

\* an undirected graph in which a node v other than the source was popped:
\* update_vertex(source) was called as a successor of v and found the source
\* consistent; the source is out of the queue and another node is in it
C23_Witness ==
  /\ lpaPhase = "loop" /\ ~lpaDirected
  /\ lpaSt.g[lpaS] = lpaSt.rhs[lpaS] /\ ~LpaQueued(lpaS)
  /\ \E v \in Nodes \ {lpaS} : lpaSt.g[v] < Inf /\ lpaG[<<v, lpaS>>] < Inf
  /\ \E x \in Nodes : LpaQueued(x)

\* C24: on a graph with non-negative weights the main loop is left by its
\* break: no iteration pops from an empty queue or raises anything else, and
\* the loop runs at most one iteration per node and one more for the break.
C24_LoopEndsByBreak ==
  /\ lpaOut.kind \notin {"KeyError", "TypeError"}
  /\ lpaPhase = "loop" => lpaIters <= NumNodes

\* C25: when the main loop exits, g[target] is the true shortest distance
\* from source to target, infinity when target is unreachable, whatever the
\* path extraction returns afterwards.
C25_GTargetIsDistance ==
  lpaPhase = "extract" => lpaSt.g[lpaT] = TrueDist(lpaG, NumNodes)[<<lpaS, lpaT>>]

\* the loop has exited with a finite g[target] below the weight of the edge
\* from source to target, and the path extraction does not return that cost
C25_Witness ==
  /\ lpaPhase = "extract"
  /\ lpaSt.g[lpaT] < lpaG[<<lpaS, lpaT>>]
  /\ lpaSt.g[lpaT] = TrueDist(lpaG, NumNodes)[<<lpaS, lpaT>>]
  /\ LET Walk(r) == r.kind # "path" \/ r.cost # lpaSt.g[lpaT]
     IN Walk(ExtractPath(lpaG, lpaT, lpaSt.g, <<lpaS>>, 0, 0))

\* the priority of the entry of pq that the finder holds for the queued u
LpaEntryPri(u) ==
  lpaSt.heap[CHOOSE k \in 1..Len(lpaSt.heap) : lpaSt.heap[k].id = lpaSt.finder[2 * u + 2]].pri

\* every node that the next pop can return has g > rhs and is queued under
\* its current key, and rhs[source] is 0
LpaPopsLower ==
  LpaAtLoop =>
     /\ lpaSt.rhs[lpaS] = 0
     /\ \A u \in Nodes :
           LpaQueued(u) => /\ lpaSt.g[u] > lpaSt.rhs[u]
                           /\ LpaEntryPri(u) = Min2(lpaSt.g[u], lpaSt.rhs[u])

\* a step inside one call raises no g and no rhs
LpaNoIncrease ==
  (lpaSt # LpaNoState /\ lpaSt' # LpaNoState /\ lpaSolves' = lpaSolves) =>
     \A u \in Nodes : lpaSt'.g[u] <= lpaSt.g[u] /\ lpaSt'.rhs[u] <= lpaSt.rhs[u]

\* C26: within one call every node that is popped has g > rhs and an
\* up-to-date key, no g and no rhs value ever increases (so the stale-key
\* reinsertion and the branch g[u] = infinity are not taken), and rhs[source]
\* stays 0.
C26_PopsLowerOnly == []LpaPopsLower /\ [][LpaNoIncrease]_vars

\* a node other than the source was popped and made consistent, and a queued
\* node has since got a finite rhs below its g
C26_Witness ==
  /\ lpaPhase = "loop" /\ lpaIters >= 2
  /\ \E u \in Nodes \ {lpaS} : lpaSt.g[u] = lpaSt.rhs[u] /\ lpaSt.g[u] < Inf
  /\ \E v \in Nodes : LpaQueued(v) /\ lpaSt.rhs[v] < lpaSt.g[v]

\* C30: a path returned by lpa_star starts at source, ends at target,
\* follows edges of the graph, visits no node twice and has at most |V| + 6
\* steps, and the reported cost is the sum of its edge weights.
C30_LpaPathIsSound ==
  (lpaPhase = "done" /\ lpaOut.kind = "path") =>
     /\ lpaOut.path[1] = lpaS
     /\ lpaOut.path[Len(lpaOut.path)] = lpaT
     /\ \A i \in 1..(Len(lpaOut.path) - 1) :
           lpaG[<<lpaOut.path[i], lpaOut.path[i + 1]>>] < Inf
     /\ \A i \in 1..Len(lpaOut.path) : \A j \in 1..Len(lpaOut.path) :
           lpaOut.path[i] = lpaOut.path[j] => i = j
     /\ Len(lpaOut.path) - 1 <= NumNodes + 6
     /\ lpaOut.cost = PathWeight(lpaG, lpaOut.path)

\* the call after a weight change returned a path over two edges that is
\* dearer than the shortest one
C30_Witness ==
  /\ lpaPhase = "done" /\ lpaSolves = 2 /\ lpaOut.kind = "path"
  /\ Len(lpaOut.path) = 3
  /\ lpaOut.cost > TrueDist(lpaG, NumNodes)[<<lpaS, lpaT>>]

(***************************************************************************)
(* Claims on the four path queries together                                *)
(***************************************************************************)
\* the finished query of each function had source and target in the graph
\* and no path from source to target
ChUnreachable ==
  /\ chPhase = "done" /\ chS \in CNodes /\ chT \in CNodes
  /\ TrueDist(chG, NumCNodes)[<<chS, chT>>] >= Inf
TnrUnreachable ==
  /\ tnrPhase = "done" /\ tnrS \in TNodes /\ tnrT \in TNodes
  /\ TrueDist(tnrG, NumTNodes)[<<tnrS, tnrT>>] >= Inf
YenUnreachable ==
  /\ yPhase = "done" /\ yS \in YNodes /\ yT \in YNodes
  /\ TrueDist(yG, NumYNodes)[<<yS, yT>>] >= Inf
LpaUnreachable ==
  /\ lpaPhase = "done" /\ lpaS \in Nodes /\ lpaT \in Nodes
  /\ TrueDist(lpaG, NumNodes)[<<lpaS, lpaT>>] >= Inf

\* C17: with source and target in the graph and target unreachable, each
\* query returns its no-path value (None, the empty list for yen) and
\* raises nothing.
C17_UnreachableIsNoPath ==
  /\ ChUnreachable => chOut.kind = "None"
  /\ TnrUnreachable => tnrOut.kind = "None"
  /\ YenUnreachable => (yOut.kind = "list" /\ yOut.list = <<>>)
  /\ LpaUnreachable => lpaOut.kind = "None"

\* C18: with source or target absent from the graph, each query gives up
\* before it computes anything: no hierarchy built, no search step made,
\* and the outcome is not a path.
C18_AbsentNodeIsRejected ==
  /\ (chPhase = "done" /\ (chS \notin CNodes \/ chT \notin CNodes)) =>
        /\ chOut.kind = "None"
        /\ chUp = [a \in CArcs |-> Inf]
        /\ chF = NoSearch /\ chB = NoSearch
  /\ (tnrPhase = "done" /\ (tnrS \notin TNodes \/ tnrT \notin TNodes)) =>
        /\ tnrOut.kind = "None"
        /\ tnrTried = 0
  /\ (yPhase = "done" /\ (yS \notin YNodes \/ yT \notin YNodes)) =>
        /\ yOut.kind \notin {"NetworkXError", "IndexError"}
        /\ (yOut.kind = "list" => yOut.list = <<>>)
        /\ yPops = 0
  /\ (lpaPhase = "done" /\ (lpaS \notin Nodes \/ lpaT \notin Nodes)) =>
        /\ lpaOut.kind = "None"
        /\ lpaSt = LpaNoState /\ lpaIters = 0

(***************************************************************************)
(* Specifications                                                          *)
(***************************************************************************)
InitPQ == PQInit /\ FibIdle /\ JIdle /\ ChIdle /\ TnrIdle /\ YIdle /\ LpaIdle
NextPQ ==
  \/ \E item \in Items, pri \in Pris : PQPush(item, pri)
  \/ PQPop
  \/ PQPeek
SpecPQ == InitPQ /\ [][NextPQ]_vars

InitFib == FibInit /\ PQIdle /\ JIdle /\ ChIdle /\ TnrIdle /\ YIdle /\ LpaIdle
NextFib ==
  \/ \E v \in FibValues : FhPush(v)
  \/ FhPop
SpecFib == InitFib /\ [][NextFib]_vars

InitJohnson == JInit /\ PQIdle /\ FibIdle /\ ChIdle /\ TnrIdle /\ YIdle /\ LpaIdle
NextJohnson == JSpfaStep \/ JReweight \/ JSearch
SpecJohnson == InitJohnson /\ [][NextJohnson]_vars

InitCH == ChInit /\ PQIdle /\ FibIdle /\ JIdle /\ TnrIdle /\ YIdle /\ LpaIdle
NextCH == ChBegin \/ ChStep \/ ChFinish
SpecCH == InitCH /\ [][NextCH]_vars

InitTNR == TnrInit /\ PQIdle /\ FibIdle /\ JIdle /\ ChIdle /\ YIdle /\ LpaIdle
NextTNR == TnrBuild \/ \E s, t \in TNodes \cup {TAbsent} : TnrQuery(s, t)
SpecTNR == InitTNR /\ [][NextTNR]_vars

InitYen == YInit /\ PQIdle /\ FibIdle /\ JIdle /\ ChIdle /\ TnrIdle /\ LpaIdle
NextYen == YenBegin \/ YenRound
SpecYen == InitYen /\ [][NextYen]_vars

\* lpa_star(G, source, target) on an nx.Graph or an nx.DiGraph with weights
\* 1..MaxLW, node labels all str or all int, source and target nodes of G
\* or the label NumNodes + 1 that G does not hold
InitLPA ==
  /\ \E kind \in ItemKinds, s \in 1..(NumNodes + 1), t \in 1..(NumNodes + 1) :
        \/ \E f \in [UPairs -> (1..MaxLW) \cup {Inf}] :
              LpaStartState(kind, FALSE, Symmetric(f), s, t)
        \/ \E f \in [Arcs -> (1..MaxLW) \cup {Inf}] :
              LpaStartState(kind, TRUE, f, s, t)
  /\ PQIdle /\ FibIdle /\ JIdle /\ ChIdle /\ TnrIdle /\ YIdle
NextLPA == LpaBegin \/ LpaStep \/ LpaFinish \/ LpaMutate
SpecLPA == InitLPA /\ [][NextLPA]_vars

====
